---- MODULE Spec2Model ----
(***************************************************************************)
(* A model of the LinkedIn content scraper: the adaptive RateLimiter       *)
(* (src/src/utils/rate-limiter.js), the BrowserManager teardown            *)
(* (src/src/core/browser-manager.js), the LinkedInScraper fallback cascade *)
(* (src/src/core/scraper.js) and the Actor run that drives them            *)
(* (src/src/main.js).                                                      *)
(*                                                                         *)
(* Conventions                                                             *)
(*  - times are integer milliseconds; Date.now() is the variable clock.    *)
(*  - successRate is kept in hundredths (1.0 is 100, 0.05 is 5).           *)
(*  - currentDelay and the adaptive delay are exact rationals [n, d] with  *)
(*    d > 0 in lowest terms (the code multiplies by 0.95 and 1.5).         *)
(*  - an option value 0 stands for "falsy / not given": the constructor    *)
(*    uses `options.x || default`.                                         *)
(***************************************************************************)
EXTENDS Integers, Sequences, FiniteSets, TLC

VARIABLES
  rateLimiter,   \* the RateLimiter object's fields
  clock,         \* Date.now()
  inflight,      \* per caller of delay(): position and locals of the call
  budget,        \* calls and clock advances still allowed by the bounds
  lastCall,      \* the RateLimiter method that completed last, with its argument
  pc,            \* position of the run in Actor.main and in the scraper's methods
  options,       \* the options the LinkedInScraper was constructed with
  input,         \* the run's input: credentials given, profile URL
  browser,       \* BrowserManager: the browser and page handles
  scraper,       \* LinkedInScraper: isAuthenticated, scrapedData, profileMetadata
  sp,            \* locals of the scrapeProfile call in progress, and what it did
  result,        \* how login and scrapeProfile ended, and the error the run threw
  page,          \* what a stage reads: the snapshot of a page, or a service's answers
  produced,      \* what the ContentExtractor and the adapter returned for it
  selectorUpdater \* SelectorUpdater: customSelectors and selectorPerformance

rlVars == <<rateLimiter, clock, inflight, budget, lastCall>>

scraperVars == <<pc, options, input, browser, scraper, sp, result, page, produced,
                 selectorUpdater>>

vars == <<rateLimiter, clock, inflight, budget, lastCall,
          pc, options, input, browser, scraper, sp, result, page, produced,
          selectorUpdater>>

----------------------------------------------------------------------------
(* Bounds of the model *)

MaxRecords == 3        \* recordSuccess / recordFailure / reset calls in a run
MaxDelayCalls == 3     \* delay() calls started in a run
MaxRLDelays == 2       \* delay() calls among the record calls of SpecRL
MaxTicks == 2          \* idle clock advances in a run
ClockOrigin == 100000  \* Date.now() when the RateLimiter is constructed

(* Program constants *)

DefaultBaseDelay == 2000
DefaultMaxDelay == 10000
DefaultMaxRequestsPerWindow == 30
DefaultWindowSize == 60000
JitterRange == 1000
SuccessStep == 5
FailurePenalty == 10
BlockedPenalty == 30
MinSuccessRate == 10
MaxSuccessRate == 100
LoadThreshold1 == 50
LoadThreshold2 == 100

----------------------------------------------------------------------------
(* Exact rational arithmetic for the delay computations *)

Abs(x) == IF x < 0 THEN -x ELSE x

Min(a, b) == IF a <= b THEN a ELSE b

Max(a, b) == IF a >= b THEN a ELSE b

\* Euclid's algorithm, as a function so that its arguments are values
gcd[a \in Nat, b \in Nat] == IF b = 0 THEN a ELSE gcd[b, a % b]

GCD(a, b) == gcd[a, b]

\* a rational: a fraction n / d, or NaN when d is 0
Rationals == [n : Int, d : Nat]

\* the operations below are functions, so that their arguments are values
norm[n \in Int, d \in Nat] ==
  LET g == GCD(Abs(n), d) IN [n |-> n \div g, d |-> d \div g]

Norm(n, d) == norm[n, d]

IntRat(i) == [n |-> i, d |-> 1]

ratMul[a \in Rationals, b \in Rationals] ==
  LET g1 == GCD(Abs(a.n), b.d)
      g2 == GCD(Abs(b.n), a.d)
  IN  Norm((a.n \div g1) * (b.n \div g2), (a.d \div g2) * (b.d \div g1))

RatMul(a, b) == ratMul[a, b]

ratAdd[a \in Rationals, b \in Rationals] == Norm(a.n * b.d + b.n * a.d, a.d * b.d)

RatAdd(a, b) == ratAdd[a, b]

\* the integer part setTimeout keeps of a non-negative delay
Floor(a) == a.n \div a.d

Ceil(a) == -((-a.n) \div a.d)

\* comparisons of a rational with a whole number
RatLeqInt(a, i) == Ceil(a) <= i

IntLeqRat(i, a) == i <= Floor(a)

\* Math.min(a, i) and Math.max(a, i)
mathMin[a \in Rationals, i \in Int] == IF RatLeqInt(a, i) THEN a ELSE IntRat(i)

MathMin(a, i) == mathMin[a, i]

mathMax[a \in Rationals, i \in Int] == IF IntLeqRat(i, a) THEN a ELSE IntRat(i)

MathMax(a, i) == mathMax[a, i]

----------------------------------------------------------------------------
(* RateLimiter: constructor and synchronous methods *)

OrDefault(v, dflt) == IF v = 0 THEN dflt ELSE v

RateLimiterNew(limits, now) ==
  [ baseDelay            |-> OrDefault(limits.baseDelay, DefaultBaseDelay),
    maxDelay             |-> OrDefault(limits.maxDelay, DefaultMaxDelay),
    currentDelay         |-> IntRat(OrDefault(limits.baseDelay, DefaultBaseDelay)),
    requestCount         |-> 0,
    successRate          |-> MaxSuccessRate,
    lastRequestTime      |-> 0,
    windowStart          |-> now,
    requestsInWindow     |-> 0,
    maxRequestsPerWindow |-> OrDefault(limits.maxRequestsPerWindow,
                                       DefaultMaxRequestsPerWindow),
    windowSize           |-> OrDefault(limits.windowSize, DefaultWindowSize) ]

recordSuccessOf(r) ==
  [r EXCEPT !.successRate  = Min(MaxSuccessRate, @ + SuccessStep),
            !.currentDelay = MathMax(RatMul(@, [n |-> 19, d |-> 20]), r.baseDelay)]

\* mutant: the two penalties exchanged
penaltyFactorSwapped(isBlocked) == IF isBlocked THEN FailurePenalty ELSE BlockedPenalty

penaltyFactor(isBlocked) == IF isBlocked THEN BlockedPenalty ELSE FailurePenalty

\* mutant: the raised delay is not bounded at maxDelay
recordFailureUnbounded(r, isBlocked) ==
  [r EXCEPT !.successRate  = Max(MinSuccessRate, @ - penaltyFactor(isBlocked)),
            !.currentDelay = RatMul(@, [n |-> 3, d |-> 2])]

\* mutant: a failure shortens the delay and raises the success rate
recordFailureRelaxing(r, isBlocked) ==
  [r EXCEPT !.successRate  = Min(MaxSuccessRate, @ + penaltyFactor(isBlocked)),
            !.currentDelay = RatMul(@, [n |-> 2, d |-> 3])]

recordFailureOf(r, isBlocked) ==
  [r EXCEPT !.successRate  = Max(MinSuccessRate, @ - penaltyFactor(isBlocked)),
            !.currentDelay = MathMin(RatMul(@, [n |-> 3, d |-> 2]), r.maxDelay)]

resetOf(r, now) ==
  [r EXCEPT !.requestCount     = 0,
            !.successRate      = MaxSuccessRate,
            !.currentDelay     = IntRat(r.baseDelay),
            !.lastRequestTime  = 0,
            !.windowStart      = now,
            !.requestsInWindow = 0]

\* the factor applied for high request counts: the second branch is an
\* else-if of the first, as in the code
loadFactor(requestCount) ==
  IF requestCount > LoadThreshold1 THEN [n |-> 3, d |-> 2]
  ELSE IF requestCount > LoadThreshold2 THEN IntRat(2)
  ELSE IntRat(1)

\* jitter is the value of Math.random() * 1000, here a whole number
calculateAdaptiveDelay(r, jitter) ==
  LET scaled == RatMul(r.currentDelay, [n |-> 200 - r.successRate, d |-> 100])
      loaded == RatMul(scaled, loadFactor(r.requestCount))
      delay  == RatAdd(loaded, IntRat(jitter))
  IN  MathMin(MathMax(delay, r.baseDelay), r.maxDelay)

windowReset(r, now) ==
  IF now - r.windowStart > r.windowSize
  THEN [r EXCEPT !.windowStart = now, !.requestsInWindow = 0]
  ELSE r

\* mutant: the ceiling test is off by one
rateLimitReachedStrict(r) == r.requestsInWindow > r.maxRequestsPerWindow

rateLimitReached(r) == r.requestsInWindow >= r.maxRequestsPerWindow

waitTime(r, now) == r.windowSize - (now - r.windowStart)

afterWindowWait(r, t) == [r EXCEPT !.windowStart = t, !.requestsInWindow = 0]

\* timeSinceLastRequest < adaptiveDelay, with `now` the value read on entry
mustWait(r, now, adaptive) == now - r.lastRequestTime <= (adaptive.n - 1) \div adaptive.d

\* the whole milliseconds of adaptiveDelay - timeSinceLastRequest
remainingDelay(r, now, adaptive) == Floor(adaptive) - (now - r.lastRequestTime)

finishDelay(r, t) ==
  [r EXCEPT !.lastRequestTime  = t,
            !.requestCount     = @ + 1,
            !.requestsInWindow = @ + 1]

----------------------------------------------------------------------------
(* RateLimiter.delay(): an async method, one action per stretch of code    *)
(* between two suspension points (the awaited sleeps).                     *)

SeqCallers == {"c1"}

ConcCallers == {"c1", "c2"}

Callers == SeqCallers \cup ConcCallers

\* the values of Math.random() * 1000 tried: all three where the limiter is
\* exercised on its own, the least one within a run of the scraper
JitterSamples == IF pc = "none" THEN {0, 1, JitterRange - 1} ELSE {0}

\* how late after its due time a timer may fire
Lateness == IF pc = "none" THEN {0, 1} ELSE {0}

IdleCall ==
  [pc |-> "idle", now |-> 0, wakeAt |-> 0, limited |-> FALSE, windowEnd |-> 0,
   completedAt |-> 0]

\* timers fire in the order of their due times
firesNext(p) ==
  \A q \in Callers :
    inflight[q].pc \in {"windowWait", "adaptiveWait"} => inflight[p].wakeAt <= inflight[q].wakeAt

\* lines 46-50: the call completes at time t
delayComplete(p, r, t) ==
  /\ rateLimiter' = finishDelay(r, t)
  /\ inflight' = [inflight EXCEPT ![p].pc = "idle", ![p].completedAt = t]
  /\ lastCall' = [op |-> "delay", arg |-> FALSE, by |-> p]

\* lines 36-50, entered at time t by a call that read `now` on entry
delayAdaptive(p, r, now, t, lim, wend) ==
  \E jitter \in JitterSamples :
    LET adaptive == calculateAdaptiveDelay(r, jitter)
        entered  == [inflight EXCEPT ![p].now = now, ![p].limited = lim,
                                     ![p].windowEnd = wend]
    IN  IF mustWait(r, now, adaptive)
        THEN /\ rateLimiter' = r
             /\ inflight' = [entered EXCEPT
                               ![p].pc = "adaptiveWait",
                               ![p].wakeAt = t + remainingDelay(r, now, adaptive)]
             /\ UNCHANGED lastCall
        ELSE /\ rateLimiter' = finishDelay(r, t)
             /\ inflight' = [entered EXCEPT ![p].pc = "idle", ![p].completedAt = t]
             /\ lastCall' = [op |-> "delay", arg |-> FALSE, by |-> p]

\* lines 19-34 (and on, when the ceiling is not reached)
delayBegin(p) ==
  /\ inflight[p].pc = "idle"
  /\ UNCHANGED clock
  /\ LET now == clock
         r1  == windowReset(rateLimiter, now)
     IN  IF rateLimitReached(r1)
         THEN /\ rateLimiter' = r1
              /\ inflight' = [inflight EXCEPT ![p] =
                   [pc |-> "windowWait", now |-> now,
                    wakeAt |-> now + waitTime(r1, now), limited |-> TRUE,
                    windowEnd |-> r1.windowStart + r1.windowSize, completedAt |-> 0]]
              /\ UNCHANGED lastCall
         ELSE delayAdaptive(p, r1, now, now, FALSE, 0)

\* lines 32-50: the window sleep is over
delayAfterWindowWait(p) ==
  /\ inflight[p].pc = "windowWait"
  /\ firesNext(p)
  /\ \E late \in Lateness :
       LET t == Max(clock, inflight[p].wakeAt + late)
       IN  /\ clock' = t
           /\ delayAdaptive(p, afterWindowWait(rateLimiter, t), inflight[p].now, t,
                            TRUE, inflight[p].windowEnd)

\* lines 46-50: the adaptive sleep is over
delayAfterAdaptiveWait(p) ==
  /\ inflight[p].pc = "adaptiveWait"
  /\ firesNext(p)
  /\ \E late \in Lateness :
       LET t == Max(clock, inflight[p].wakeAt + late)
       IN  /\ clock' = t
           /\ delayComplete(p, rateLimiter, t)

\* a caller of the RateLimiter starts a delay() call
callDelay(p) ==
  /\ budget.delays > 0
  /\ budget' = [budget EXCEPT !.delays = @ - 1]
  /\ delayBegin(p)
  /\ UNCHANGED scraperVars

\* a timer of a delay() call in flight fires
windowWaitOver(p) == delayAfterWindowWait(p) /\ UNCHANGED <<budget, scraperVars>>

adaptiveWaitOver(p) == delayAfterAdaptiveWait(p) /\ UNCHANGED <<budget, scraperVars>>

recordSuccess ==
  /\ budget.records > 0
  /\ budget' = [budget EXCEPT !.records = @ - 1]
  /\ rateLimiter' = recordSuccessOf(rateLimiter)
  /\ lastCall' = [op |-> "recordSuccess", arg |-> FALSE, by |-> "c1"]
  /\ UNCHANGED <<clock, inflight, scraperVars>>

recordFailure ==
  /\ budget.records > 0
  /\ budget' = [budget EXCEPT !.records = @ - 1]
  /\ \E isBlocked \in BOOLEAN :
       /\ rateLimiter' = recordFailureOf(rateLimiter, isBlocked)
       /\ lastCall' = [op |-> "recordFailure", arg |-> isBlocked, by |-> "c1"]
  /\ UNCHANGED <<clock, inflight, scraperVars>>

reset ==
  /\ budget.records > 0
  /\ budget' = [budget EXCEPT !.records = @ - 1]
  /\ rateLimiter' = resetOf(rateLimiter, clock)
  /\ lastCall' = [op |-> "reset", arg |-> FALSE, by |-> "c1"]
  /\ UNCHANGED <<clock, inflight, scraperVars>>

\* time passes while nothing runs: a millisecond, or a whole window
Tick ==
  /\ budget.ticks > 0
  /\ budget' = [budget EXCEPT !.ticks = @ - 1]
  /\ \E d \in {1, rateLimiter.windowSize} : clock' = clock + d
  /\ UNCHANGED <<rateLimiter, inflight, lastCall, scraperVars>>

----------------------------------------------------------------------------
(* LinkedInScraper, BrowserManager and the run of Actor.main               *)

\* bounds of the scraper run
MaxPagePosts == 2

MaxAdapterPosts == 1

\* program constants: src/core/scraper.js
DefaultMaxRetries == 3

MaxStuckCount == 3

AlternativeUrlCount == 3

AlternativeLimit == 10

BackoffUnit == 1000

\* error messages, as the words `message.includes` can find in them
NotInitializedError == <<"Browser", "not", "initialized.", "Call", "initialize()", "first.">>

InvalidUrlError == <<"Invalid", "LinkedIn", "profile", "URL", "provided">>

ProfileBlockedError ==
  <<"LinkedIn", "blocked", "the", "request", "-", "retrying", "with", "different", "approach">>

AuthRequiredError ==
  <<"Authentication", "required", "to", "access", "activity", "page.",
    "Please", "provide", "LinkedIn", "credentials.">>

SessionExpiredError == <<"Authentication", "session", "may", "have", "expired">>

ActivityBlockedError ==
  <<"Activity", "page", "blocked", "-", "trying", "alternative", "approach">>

NoDataError == <<"No", "data", "to", "export.", "Run", "scrapeProfile()", "first.">>

LoginError == <<"Login", "failed.">>

LaunchError == <<"Failed", "to", "launch", "the", "browser", "process!">>

ExportError == <<"Export", "failed">>

\* what navigateToPage and the page's own methods can throw
FailedToLoad(status) == <<"Failed", "to", "load", "page:", status>>

NavigationTimeout == <<"Navigation", "timeout", "of", "30000", "ms", "exceeded">>

PageError == <<"Execution", "context", "was", "destroyed">>

NoError == <<>>

NavigationErrors ==
  {FailedToLoad("999"), FailedToLoad("403"), NavigationTimeout, PageError}

includes(message, word) == \E i \in DOMAIN message : message[i] = word

\* a variant of the test at line 338 that sends every error down the cascade
triesOtherStagesAlways(message) == Len(message) >= 0

\* scraper.js line 338: the errors after which the other stages are tried
triesOtherStages(message) ==
  includes(message, "blocked") \/ includes(message, "999") \/ includes(message, "timeout")

\* scraper.js lines 12-22: the options of the constructor; maxRetries and
\* useFallback default with ??, so a given 0 or false stays
ScraperOptions(given) ==
  [maxRetries  |-> IF given.maxRetries.given THEN given.maxRetries.value
                                              ELSE DefaultMaxRetries,
   maxPosts    |-> given.maxPosts,
   useFallback |-> IF given.useFallback.given THEN given.useFallback.value ELSE TRUE]

\* retry(): retries = maxRetries || this.options.maxRetries, maxRetries null
retries == options.maxRetries

RECURSIVE Pow2(_)
Pow2(n) == IF n = 0 THEN 1 ELSE 2 * Pow2(n - 1)

\* retry() lines 623-624
backoff(attempt) == Pow2(attempt) * BackoffUnit

\* posts are told apart by the stage that produced them and their position
Posts(from, n) == [i \in 1..n |-> [from |-> from, index |-> i]]

NoMetadata == [from |-> "none", url |-> "none", scrapedVia |-> "absent",
               fallbackUsed |-> FALSE, error |-> NoError]

\* scraper.js line 285 and content-extractor.js lines 9-55: what the
\* extractor returns has no scrapedVia field
ExtractedMetadata(url) == [NoMetadata EXCEPT !.from = "extractor", !.url = url]

\* scraper.js line 288
UnknownMetadata(url) == [NoMetadata EXCEPT !.from = "unknown", !.url = url]

\* what the adapter's scrapeLinkedInProfile resolves to
AdapterSuccess(url, n) ==
  [success |-> TRUE, posts |-> Posts("adapter", n),
   profileMetadata |-> [NoMetadata EXCEPT !.from = "adapter", !.url = url],
   error |-> NoError]

AdapterFailure == [success |-> FALSE, posts |-> <<>>, profileMetadata |-> NoMetadata,
                   error |-> <<"JigsawStack", "API", "key", "not", "configured">>]

AdapterResults(url) == {AdapterSuccess(url, n) : n \in 0..MaxAdapterPosts} \cup {AdapterFailure}

\* a variant of the success branch that leaves the session's metadata in place
fallbackSucceededKeepingMetadata(s, adapted) ==
  [s EXCEPT !.scrapedData = adapted.posts,
            !.profileMetadata = [s.profileMetadata EXCEPT
                                   !.scrapedVia = "jigsawstack-fallback",
                                   !.fallbackUsed = TRUE]]

\* tryJigsawStackFallback lines 436-448
fallbackSucceeded(s, adapted) ==
  [s EXCEPT !.scrapedData = adapted.posts,
            !.profileMetadata = [adapted.profileMetadata EXCEPT
                                   !.scrapedVia = "jigsawstack-fallback",
                                   !.fallbackUsed = TRUE]]

\* createMinimalProfileData lines 461-481
createMinimalProfileData(s, url, errorMessage) ==
  [s EXCEPT !.scrapedData = <<>>,
            !.profileMetadata = [from |-> "minimal", url |-> url,
                                 scrapedVia |-> "minimal-fallback",
                                 fallbackUsed |-> TRUE, error |-> errorMessage]]

\* browser-manager.js lines 267-269
isInitialized(b) == b.browser # "null" /\ b.page = "open"

\* a URL, split where the pattern of isValidLinkedInProfileUrl splits it:
\* scheme "://" host "/" segments joined by "/", with or without a last "/"
SlugChars ==
  {"a", "b", "c", "d", "e", "f", "g", "h", "i", "j", "k", "l", "m", "n", "o", "p",
   "q", "r", "s", "t", "u", "v", "w", "x", "y", "z",
   "A", "B", "C", "D", "E", "F", "G", "H", "I", "J", "K", "L", "M", "N", "O", "P",
   "Q", "R", "S", "T", "U", "V", "W", "X", "Y", "Z",
   "0", "1", "2", "3", "4", "5", "6", "7", "8", "9", "-"}

\* scraper.js lines 582-585:
\* /^https?:\/\/(?:www\.)?linkedin\.com\/in\/[a-zA-Z0-9-]+\/?$/
isValidLinkedInProfileUrl(url) ==
  /\ url.scheme \in {"http", "https"}
  /\ url.host \in {"www.linkedin.com", "linkedin.com"}
  /\ Len(url.path) = 2
  /\ url.path[1] = <<"i", "n">>
  /\ Len(url.path[2]) > 0
  /\ \A i \in DOMAIN url.path[2] : url.path[2][i] \in SlugChars

ProfileUrl == [scheme |-> "https", host |-> "www.linkedin.com",
               path |-> << <<"i", "n">>, <<"j", "-", "d">> >>, slash |-> TRUE]

CompanyUrl == [scheme |-> "https", host |-> "www.linkedin.com",
               path |-> << <<"c", "o">>, <<"j", "-", "d">> >>, slash |-> FALSE]

\* URLs the pattern rejects for their slug, their host and their length
UnderscoreUrl == [ProfileUrl EXCEPT !.path = << <<"i", "n">>, <<"j", "_", "d">> >>]

OtherHostUrl == [ProfileUrl EXCEPT !.host = "linkedin.example.com"]

ActivityUrl == [ProfileUrl EXCEPT !.path = << <<"i", "n">>, <<"j", "-", "d">>, <<"r", "a">> >>]

RunUrls == {ProfileUrl, CompanyUrl, UnderscoreUrl, OtherHostUrl, ActivityUrl}

GivenOptions ==
  [ maxRetries  : {[given |-> FALSE, value |-> 0]} \cup
                  {[given |-> TRUE, value |-> v] : v \in 0..2},
    maxPosts    : {0, 1},
    useFallback : {[given |-> FALSE, value |-> FALSE]} \cup
                  {[given |-> TRUE, value |-> v] : v \in BOOLEAN} ]

NoBrowser == [browser |-> "null", page |-> "null"]

\* scraper.js lines 29-31
NewScraper == [isAuthenticated |-> FALSE, scrapedData |-> <<>>, profileMetadata |-> NoMetadata]

NoLocals ==
  [attempt |-> 1, altIndex |-> 0, thrown |-> NoError, error |-> NoError,
   postCount |-> 0, previousPostCount |-> 0, stuckCount |-> 0,
   adapter |-> "notCalled", adapted |-> AdapterFailure, stages |-> <<>>,
   navigatedAt |-> 0]

NoResult ==
  [login |-> "notCalled", polls |-> 0, scrape |-> "notCalled", returned |-> <<>>,
   producedBy |-> "none", exported |-> FALSE, thrown |-> NoError,
   closeCalled |-> FALSE]

\* the RateLimiter specifications run no scraper
NoScraper ==
  /\ pc = "none"
  /\ options = ScraperOptions([maxRetries |-> [given |-> FALSE, value |-> 0], maxPosts |-> 0,
                               useFallback |-> [given |-> FALSE, value |-> FALSE]])
  /\ input = [hasCredentials |-> FALSE, profileUrl |-> ProfileUrl]
  /\ browser = NoBrowser
  /\ scraper = NewScraper
  /\ sp = NoLocals
  /\ result = NoResult

\* main.js lines 144-156: an error thrown inside the try block of the run
raise(res, e) ==
  /\ pc' = "catch"
  /\ result' = [res EXCEPT !.thrown = e]

\* the scraper's own delay() call has completed
resumed == inflight["c1"].pc = "idle"

\* scraper.js lines 36-50 and browser-manager.js lines 27-98
initialize ==
  /\ pc = "initialize"
  /\ \E outcome \in {"ok", "launchFails", "newPageFails", "setupFails"} :
       /\ browser' = CASE outcome = "launchFails"  -> browser
                       [] outcome = "newPageFails" -> [browser EXCEPT !.browser = "open"]
                       [] OTHER -> [browser |-> "open", page |-> "open"]
       /\ IF outcome = "ok"
          THEN /\ pc' = IF input.hasCredentials THEN "login" ELSE "scrapeProfile"
               /\ UNCHANGED result
          ELSE raise(result, LaunchError)
  /\ UNCHANGED <<page, produced, selectorUpdater, options, input, scraper, sp, rlVars>>

\* scraper.js lines 128 and 154
ChallengePolls == 12

VerificationPolls == 10

CaptchaError == <<"CAPTCHA", "or", "security", "challenge", "could", "not", "be", "resolved">>

LoginUnclearError == <<"Login", "process", "unclear.">>

LoginFormError == <<"Login", "form", "not", "found">>

SubmitButtonError == <<"Submit", "button", "not", "found">>

\* what skipButtons[0].click() of line 149 rejects with when the node it is
\* given cannot be clicked
ClickError == <<"Node", "is", "either", "not", "clickable", "or", "not", "an", "Element">>

\* what the browser shows a login attempt: whether the pages load and hold the
\* form, the kind of page the URL names after the submit, the poll at which
\* that URL turns into the feed (0: never), the URL read last, and on a
\* verification page whether a skip button is found and its click goes through
LoginRuns ==
  [ loads : BOOLEAN, form : BOOLEAN, submit : BOOLEAN,
    url : {"feed", "challenge", "verify", "login", "other"},
    feedAtPoll : {0, 1, VerificationPolls, ChallengePolls, ChallengePolls + 1},
    finalUrl : {"feed", "login", "other"},
    skip : {"none", "clicked", "throws"} ]

Welcome(n) == [ok |-> TRUE, polls |-> n, error |-> NoError]

Refused(n, e) == [ok |-> FALSE, polls |-> n, error |-> e]

\* scraper.js lines 169-180: the check after the waits
loginFinalCheck(l, n) ==
  IF l.finalUrl = "feed" THEN Welcome(n)
  ELSE IF l.finalUrl = "login" THEN Refused(n, LoginError)
  ELSE Refused(n, LoginUnclearError)

\* scraper.js lines 52-186, called with both credentials
login(l) ==
  IF ~l.loads THEN Refused(0, PageError)
  ELSE IF ~l.form THEN Refused(0, LoginFormError)
  ELSE IF ~l.submit THEN Refused(0, SubmitButtonError)
  ELSE IF l.url = "feed" THEN Welcome(0)
  ELSE IF l.url = "challenge"
    THEN IF l.feedAtPoll \in 1..ChallengePolls
         THEN Welcome(l.feedAtPoll)
         ELSE Refused(ChallengePolls, CaptchaError)
  ELSE IF l.url = "verify"
    THEN IF l.skip = "throws" THEN Refused(0, ClickError)
         ELSE IF l.feedAtPoll \in 1..VerificationPolls
         THEN Welcome(l.feedAtPoll)
         ELSE loginFinalCheck(l, VerificationPolls)
  ELSE loginFinalCheck(l, 0)

\* main.js lines 49-58: login is awaited inside the try block of the run
callLogin ==
  /\ pc = "login"
  /\ \E l \in LoginRuns :
       LET outcome == login(l)
       IN  IF outcome.ok
           THEN /\ scraper' = [scraper EXCEPT !.isAuthenticated = TRUE]
                /\ result' = [result EXCEPT !.login = "ok", !.polls = outcome.polls]
                /\ pc' = "scrapeProfile"
           ELSE /\ raise([result EXCEPT !.login = "failed", !.polls = outcome.polls],
                         outcome.error)
                /\ UNCHANGED scraper
  /\ UNCHANGED <<page, produced, selectorUpdater, options, input, browser, sp, rlVars>>

\* a throw inside the try block of scrapeProfile, caught at line 334
caught(locals, e) ==
  /\ pc' = "scrapeCatch"
  /\ sp' = [locals EXCEPT !.thrown = e]

\* scrapeProfile returns posts to main.js line 60
returns(posts, stage) ==
  /\ pc' = "export"
  /\ result' = [result EXCEPT !.scrape = "returned", !.returned = posts,
                              !.producedBy = stage]

\* scraper.js lines 252-263
scrapeProfile ==
  /\ pc = "scrapeProfile"
  /\ result' = [result EXCEPT !.scrape = "running"]
  /\ IF ~isInitialized(browser) THEN caught(NoLocals, NotInitializedError)
     ELSE IF ~isValidLinkedInProfileUrl(input.profileUrl)
       THEN caught(NoLocals, InvalidUrlError)
     ELSE /\ pc' = "navigateProfile"
          /\ sp' = [NoLocals EXCEPT !.stages = <<"primary">>]
  /\ UNCHANGED <<page, produced, selectorUpdater, options, input, browser, scraper, rlVars>>

\* a retry() that never takes an attempt for the last one: a failed attempt
\* is always followed by the backoff and another attempt
retryWithoutLastAttempt(errors, whenDone, whenThrown) ==
  IF sp.attempt > retries + 1
  THEN /\ pc' = whenThrown
       /\ UNCHANGED <<sp, rlVars>>
  ELSE \/ /\ pc' = whenDone
          /\ sp' = [sp EXCEPT !.attempt = 1, !.navigatedAt = rateLimiter.requestCount]
          /\ UNCHANGED rlVars
       \/ /\ errors # {}
          /\ clock' = clock + backoff(sp.attempt)
          /\ rateLimiter' = recordFailureOf(rateLimiter, FALSE)
          /\ lastCall' = [op |-> "recordFailure", arg |-> FALSE, by |-> "c1"]
          /\ sp' = [sp EXCEPT !.attempt = @ + 1,
                              !.navigatedAt = rateLimiter.requestCount]
          /\ UNCHANGED <<pc, inflight, budget>>

\* scraper.js lines 609-630: one attempt of retry(operation); the operation,
\* a navigation, succeeds or throws one of `errors`. sp.navigatedAt keeps the
\* number of delay() calls completed when the browser navigated last.
retry(errors, whenDone, whenThrown) ==
  IF sp.attempt > retries
  THEN /\ pc' = whenDone
       /\ UNCHANGED <<sp, rlVars>>
  ELSE \/ /\ pc' = whenDone
          /\ sp' = [sp EXCEPT !.attempt = 1, !.navigatedAt = rateLimiter.requestCount]
          /\ UNCHANGED rlVars
       \/ \E e \in errors :
            IF sp.attempt = retries
            THEN /\ pc' = whenThrown
                 /\ sp' = [sp EXCEPT !.attempt = 1, !.thrown = e,
                                     !.navigatedAt = rateLimiter.requestCount]
                 /\ UNCHANGED rlVars
            ELSE /\ clock' = clock + backoff(sp.attempt)
                 /\ rateLimiter' = recordFailureOf(rateLimiter, FALSE)
                 /\ lastCall' = [op |-> "recordFailure", arg |-> FALSE, by |-> "c1"]
                 /\ sp' = [sp EXCEPT !.attempt = @ + 1,
                                     !.navigatedAt = rateLimiter.requestCount]
                 /\ UNCHANGED <<pc, inflight, budget>>

\* scraper.js lines 266-279
navigateProfile ==
  /\ pc = "navigateProfile"
  /\ retry(NavigationErrors \cup {ProfileBlockedError}, "delayAfterProfile", "scrapeCatch")
  /\ UNCHANGED <<page, produced, selectorUpdater, options, input, browser, scraper, result>>

\* the scraper calls rateLimiter.delay(): lines 281, 318 and 495
delayCall(at, next) ==
  /\ pc = at
  /\ delayBegin("c1")
  /\ pc' = next
  /\ UNCHANGED <<budget, page, produced, selectorUpdater, options, input, browser, scraper, sp, result>>

\* scraper.js lines 283-289
extractMetadata ==
  /\ pc = "extractMetadata"
  /\ resumed
  /\ \E m \in {ExtractedMetadata(input.profileUrl), UnknownMetadata(input.profileUrl)} :
       scraper' = [scraper EXCEPT !.profileMetadata = m]
  /\ pc' = "navigateActivity"
  /\ UNCHANGED <<page, produced, selectorUpdater, options, input, browser, sp, result, rlVars>>

\* scraper.js lines 295-316
navigateActivity ==
  /\ pc = "navigateActivity"
  /\ retry(NavigationErrors \cup
             {IF scraper.isAuthenticated THEN SessionExpiredError ELSE AuthRequiredError,
              ActivityBlockedError},
           "delayAfterActivity", "scrapeCatch")
  /\ UNCHANGED <<page, produced, selectorUpdater, options, input, browser, scraper, result>>

\* loadAllPosts lines 492-495: the loop goes on, scrolls and calls delay()
loadAllPostsScroll ==
  /\ pc = "loadAllPosts"
  /\ resumed
  /\ sp.stuckCount < MaxStuckCount
  /\ \/ /\ delayBegin("c1")
        /\ pc' = "countPosts"
        /\ UNCHANGED <<budget, sp>>
     \/ /\ caught(sp, PageError)
        /\ UNCHANGED rlVars
  /\ UNCHANGED <<page, produced, selectorUpdater, options, input, browser, scraper, result>>

\* loadAllPosts lines 497-522: the page shows at least the posts it showed
countPosts ==
  /\ pc = "countPosts"
  /\ resumed
  /\ \E shown \in sp.postCount..MaxPagePosts :
       LET counted == [sp EXCEPT !.postCount = shown]
       IN  IF options.maxPosts # 0 /\ shown >= options.maxPosts
           THEN /\ pc' = "extractPosts"
                /\ sp' = counted
           ELSE /\ pc' = "loadAllPosts"
                /\ sp' = [counted EXCEPT
                            !.stuckCount = IF shown = sp.previousPostCount THEN @ + 1 ELSE 0,
                            !.previousPostCount = shown]
  /\ UNCHANGED <<page, produced, selectorUpdater, options, input, browser, scraper, result, rlVars>>

\* loadAllPosts line 492: the loop ends after MaxStuckCount rounds without new posts
loadAllPostsDone ==
  /\ pc = "loadAllPosts"
  /\ resumed
  /\ sp.stuckCount >= MaxStuckCount
  /\ pc' = "extractPosts"
  /\ UNCHANGED <<page, produced, selectorUpdater, options, input, browser, scraper, sp, result, rlVars>>

\* content-extractor.js extractPosts: at most maxPosts of the elements shown,
\* those without content left out, none when the extraction fails
extracted(shown, maxPosts) ==
  0..(IF maxPosts # 0 THEN Min(shown, maxPosts) ELSE shown)

\* scraper.js lines 323-332
extractPosts ==
  /\ pc = "extractPosts"
  /\ \E n \in extracted(sp.postCount, options.maxPosts) :
       /\ scraper' = [scraper EXCEPT !.scrapedData = Posts("primary", n)]
       /\ returns(Posts("primary", n), "primary")
  /\ UNCHANGED <<page, produced, selectorUpdater, options, input, browser, sp, rlVars>>

\* scraper.js lines 334-339 and 355
scrapeCatch ==
  /\ pc = "scrapeCatch"
  /\ IF triesOtherStages(sp.thrown)
     THEN /\ pc' = "alternative"
          /\ sp' = [sp EXCEPT !.error = sp.thrown, !.altIndex = 1, !.attempt = 1,
                              !.stages = Append(@, "alternative")]
          /\ UNCHANGED result
     ELSE /\ raise([result EXCEPT !.scrape = "threw"], sp.thrown)
          /\ sp' = [sp EXCEPT !.error = sp.thrown]
  /\ UNCHANGED <<page, produced, selectorUpdater, options, input, browser, scraper, rlVars>>

\* alternativeScrapingApproach lines 391-398
alternative ==
  /\ pc = "alternative"
  /\ retry(NavigationErrors, "alternativeExtract", "alternativeNext")
  /\ UNCHANGED <<page, produced, selectorUpdater, options, input, browser, scraper, result>>

\* alternativeScrapingApproach line 403
\* a stage that passes no limit to extractPosts
alternativeUnlimited(maxPosts) == 0

alternativeLimit(maxPosts) ==
  Min(IF maxPosts # 0 THEN maxPosts ELSE AlternativeLimit, AlternativeLimit)

\* the numbers of post elements with content an alternative URL may show:
\* few, or more than the stage's limit
AlternativeShown == (0..MaxPagePosts) \cup {AlternativeLimit + 1}

\* content-extractor.js lines 173 and 206-208, 224-227: extractPosts takes the
\* elements with content in page order until it has maxPosts of them; it
\* gives none when the extraction fails
extractedWithContent(shown, maxPosts) ==
  {0, IF maxPosts # 0 THEN Min(shown, maxPosts) ELSE shown}

\* alternativeScrapingApproach lines 400-410, and scrapeProfile lines 342-344
alternativeExtract ==
  /\ pc = "alternativeExtract"
  /\ \E shown \in AlternativeShown :
       \E n \in extractedWithContent(shown, alternativeLimit(options.maxPosts)) :
         IF n > 0
         THEN /\ scraper' = [scraper EXCEPT !.scrapedData = Posts("alternative", n)]
              /\ returns(Posts("alternative", n), "alternative")
         ELSE /\ pc' = "alternativeNext"
              /\ UNCHANGED <<scraper, result>>
  /\ UNCHANGED <<page, produced, selectorUpdater, options, input, browser, sp, rlVars>>

\* alternativeScrapingApproach lines 412-423, and scrapeProfile lines 345-355
\* a cascade that goes on to the AI fallback whether it is enabled or not
alternativeNextAlwaysFallback ==
  /\ pc = "alternativeNext"
  /\ IF sp.altIndex < AlternativeUrlCount
     THEN /\ pc' = "alternative"
          /\ sp' = [sp EXCEPT !.altIndex = @ + 1, !.attempt = 1]
          /\ UNCHANGED result
     ELSE /\ pc' = "fallback"
          /\ UNCHANGED <<sp, result>>
  /\ UNCHANGED <<page, produced, selectorUpdater, options, input, browser, scraper, rlVars>>

alternativeNext ==
  /\ pc = "alternativeNext"
  /\ IF sp.altIndex < AlternativeUrlCount
     THEN /\ pc' = "alternative"
          /\ sp' = [sp EXCEPT !.altIndex = @ + 1, !.attempt = 1]
          /\ UNCHANGED result
     ELSE IF options.useFallback
       THEN /\ pc' = "fallback"
            /\ UNCHANGED <<sp, result>>
       ELSE /\ raise([result EXCEPT !.scrape = "threw"], sp.error)
            /\ UNCHANGED sp
  /\ UNCHANGED <<page, produced, selectorUpdater, options, input, browser, scraper, rlVars>>

\* tryJigsawStackFallback lines 426-459
tryJigsawStackFallback ==
  /\ pc = "fallback"
  /\ \E adapted \in AdapterResults(input.profileUrl) :
       IF adapted.success
       THEN /\ scraper' = fallbackSucceeded(scraper, adapted)
            /\ sp' = [sp EXCEPT !.adapter = "success", !.adapted = adapted,
                                !.stages = Append(@, "ai")]
            /\ returns(adapted.posts, "ai")
       ELSE /\ scraper' = createMinimalProfileData(scraper, input.profileUrl,
                             <<"JigsawStack", "fallback", "failed:">> \o adapted.error)
            /\ sp' = [sp EXCEPT !.adapter = "failed",
                                !.stages = Append(Append(@, "ai"), "minimal")]
            /\ returns(<<>>, "minimal")
  /\ UNCHANGED <<page, produced, selectorUpdater, options, input, browser, rlVars>>

\* main.js lines 62-142 and scraper.js lines 533-564
export ==
  /\ pc = "export"
  /\ IF Len(scraper.scrapedData) = 0
     THEN raise(result, NoDataError)
     ELSE \E written \in BOOLEAN :
            IF written
            THEN /\ pc' = "finally"
                 /\ result' = [result EXCEPT !.exported = TRUE]
            ELSE raise(result, ExportError)
  /\ UNCHANGED <<page, produced, selectorUpdater, options, input, browser, scraper, sp, rlVars>>

\* main.js lines 144-156
mainCatch ==
  /\ pc = "catch"
  /\ pc' = "finally"
  /\ UNCHANGED <<page, produced, selectorUpdater, options, input, browser, scraper, sp, result, rlVars>>

\* browser-manager.js lines 253-265: page.close() and browser.close() in one
\* try block, either of which may reject
closeOf(b, pageCloseFails, browserCloseFails) ==
  IF b.page = "open" /\ pageCloseFails THEN b
  ELSE LET pageDone == [b EXCEPT !.page = IF @ = "open" THEN "closed" ELSE @]
       IN  IF b.browser = "null" THEN pageDone
           ELSE [pageDone EXCEPT
                   !.browser = IF browserCloseFails THEN "closeFailed" ELSE "closed"]

\* main.js lines 157-160 and scraper.js lines 599-606
close ==
  /\ pc = "finally"
  /\ \E pageCloseFails \in BOOLEAN, browserCloseFails \in BOOLEAN :
       browser' = closeOf(browser, pageCloseFails, browserCloseFails)
  /\ pc' = "done"
  /\ result' = [result EXCEPT !.closeCalled = TRUE]
  /\ UNCHANGED <<page, produced, selectorUpdater, options, input, scraper, sp, rlVars>>

----------------------------------------------------------------------------
(* Posts: what the ContentExtractor and the JigsawStackFallback adapter    *)
(* compute from a page and from a response. A string is the sequence of    *)
(* its characters, a URL the sequence of its parts.                        *)

\* bounds of the pages and responses tried
MaxElements == 2

MaxRawPosts == 2

Digits == {"0", "1", "2", "3", "4", "5", "6", "7", "8", "9"}

DigitValue(c) ==
  CASE c = "0" -> 0 [] c = "1" -> 1 [] c = "2" -> 2 [] c = "3" -> 3 [] c = "4" -> 4
    [] c = "5" -> 5 [] c = "6" -> 6 [] c = "7" -> 7 [] c = "8" -> 8 [] c = "9" -> 9

\* the characters \s matches, of those the pages tried hold
Whitespace == {" ", "LF"}

\* the characters \w matches
WordChars == (SlugChars \ {"-"}) \cup {"_"}

\* the three characters the pattern of cleanText ends with
EllipsisLiteral == <<"U+00E2", "U+20AC", "U+00A6">>

RECURSIVE runEnd(_, _, _)
\* the index after the longest run of `allowed` characters of s from index i
runEnd(s, i, allowed) ==
  IF i <= Len(s) /\ s[i] \in allowed THEN runEnd(s, i + 1, allowed) ELSE i

RECURSIVE matchAll(_, _, _, _)
\* s.match(/<marker>[<allowed>]+/g) from index i on: the matches, left to right
matchAll(s, i, marker, allowed) ==
  IF i > Len(s) THEN <<>>
  ELSE IF s[i] = marker /\ i < Len(s) /\ s[i + 1] \in allowed
    THEN LET e == runEnd(s, i + 1, allowed)
         IN  <<SubSeq(s, i, e - 1)>> \o matchAll(s, e, marker, allowed)
  ELSE matchAll(s, i + 1, marker, allowed)

RECURSIVE trimStart(_)
trimStart(s) == IF s # <<>> /\ Head(s) \in Whitespace THEN trimStart(Tail(s)) ELSE s

RECURSIVE trimEnd(_)
trimEnd(s) ==
  IF s # <<>> /\ s[Len(s)] \in Whitespace THEN trimEnd(SubSeq(s, 1, Len(s) - 1)) ELSE s

\* String.prototype.trim
trim(s) == trimEnd(trimStart(s))

RECURSIVE collapseSpaces(_)
\* s.replace(/\s+/g, ' ')
collapseSpaces(s) ==
  IF s = <<>> THEN <<>>
  ELSE IF Head(s) \in Whitespace
    THEN <<" ">> \o collapseSpaces(SubSeq(s, runEnd(s, 1, Whitespace), Len(s)))
  ELSE <<Head(s)>> \o collapseSpaces(Tail(s))

endsWith(s, tail) ==
  Len(s) >= Len(tail) /\ SubSeq(s, Len(s) - Len(tail) + 1, Len(s)) = tail

\* String.prototype.includes on characters
includesChars(s, sub) ==
  \E i \in 1..(Len(s) - Len(sub) + 1) : SubSeq(s, i, i + Len(sub) - 1) = sub

toLowerCase(s) ==
  [i \in DOMAIN s |-> IF s[i] = "K" THEN "k" ELSE IF s[i] = "M" THEN "m"
                      ELSE IF s[i] = "P" THEN "p" ELSE s[i]]

\* content-extractor.js lines 255-263
cleanText(text) ==
  IF text = <<>> THEN <<>>
  ELSE LET spaced == collapseSpaces(text)
           cut    == IF endsWith(spaced, EllipsisLiteral)
                     THEN SubSeq(spaced, 1, Len(spaced) - Len(EllipsisLiteral))
                     ELSE spaced
       IN  trim(cut)

RECURSIVE parseDigits(_, _)
\* the value of a run of digits, read after the value acc
parseDigits(s, acc) ==
  IF s = <<>> THEN acc ELSE parseDigits(Tail(s), 10 * acc + DigitValue(Head(s)))

RECURSIVE groupsEnd(_, _)
\* the index after the match of \d+(?:,\d+)* that starts at the digit s[i]
groupsEnd(s, i) ==
  LET e == runEnd(s, i, Digits)
  IN  IF e < Len(s) /\ s[e] = "," /\ s[e + 1] \in Digits THEN groupsEnd(s, e + 1) ELSE e

RECURSIVE firstDigit(_, _)
\* the index of the first digit of s from i on, 0 when there is none
firstDigit(s, i) ==
  IF i > Len(s) THEN 0 ELSE IF s[i] \in Digits THEN i ELSE firstDigit(s, i + 1)

\* content-extractor.js lines 73-83: the count an element shows; `found` is
\* <<>> when no selector matches, else <<textContent>>
getNumberBySelectors(found) ==
  IF found = <<>> THEN 0
  ELSE LET trimmed == trim(found[1])
           text    == IF trimmed = <<>> THEN <<"0">> ELSE trimmed
           i       == firstDigit(text, 1)
       IN  IF i = 0 THEN 0
           ELSE parseDigits(SelectSeq(SubSeq(text, i, groupsEnd(text, i) - 1),
                                      LAMBDA c : c # ","), 0)

\* a JavaScript number: a fraction in lowest terms, or NaN
NaN == [n |-> 0, d |-> 0]

isNaN(x) == x.d = 0

\* String.prototype.startsWith('http') on a URL given by its parts
startsWithHttp(url) == url # <<>> /\ url[1] \in {"http://", "https://"}

\* src.split('/').pop()?.split('?')[0] || fallback
fileName(url, fallback) == IF url[Len(url)] = "" THEN fallback ELSE url[Len(url)]

\* content-extractor.js lines 65-71; `found` is <<>> when no selector matches
getTextBySelectors(found) == IF found = <<>> THEN <<>> ELSE trim(found[1])

\* content-extractor.js lines 99-108
imageEntries(images) ==
  LET kept == SelectSeq(images, LAMBDA src : /\ src # <<>>
                                             /\ ~includes(src, "data:image")
                                             /\ ~includes(src, "profile"))
  IN  [i \in DOMAIN kept |->
         [type |-> "image", url |-> kept[i], filename |-> fileName(kept[i], "image")]]

\* content-extractor.js lines 112-122
videoEntries(videos) ==
  LET kept == SelectSeq(videos, LAMBDA src : src # <<>>)
  IN  [i \in DOMAIN kept |->
         [type |-> "video", url |-> kept[i], filename |-> fileName(kept[i], "video")]]

\* content-extractor.js lines 125-134; the text of a link is given trimmed
documentEntries(documents) ==
  LET kept == SelectSeq(documents, LAMBDA doc : doc.href # <<>>)
  IN  [i \in DOMAIN kept |->
         [type |-> "document", url |-> kept[i].href,
          filename |-> IF kept[i].text = "" THEN "document" ELSE kept[i].text]]

\* content-extractor.js lines 94-137
extractMediaUrls(element) ==
  imageEntries(element.images) \o videoEntries(element.videos)
    \o documentEntries(element.documents)

\* content-extractor.js lines 139-142: text.match(/#[\w-]+/g), each without its '#'
extractHashtags(text) ==
  LET tags == matchAll(text, 1, "#", WordChars \cup {"-"})
  IN  [i \in DOMAIN tags |-> Tail(tags[i])]

\* content-extractor.js lines 144-147
extractMentions(text) ==
  LET found == matchAll(text, 1, "@", WordChars \cup {"-"})
  IN  [i \in DOMAIN found |-> Tail(found[i])]

\* content-extractor.js lines 149-157
determinePostType(element, caption) ==
  IF element.videos # <<>> THEN "video"
  ELSE IF \E i \in DOMAIN element.images : includes(element.images[i], "media") THEN "image"
  ELSE IF \E i \in DOMAIN element.documents :
            includes(element.documents[i].href, "document")
              \/ includes(element.documents[i].href, "pulse") THEN "document"
  ELSE IF element.marker = "newsletter" THEN "newsletter"
  ELSE IF element.marker = "event" THEN "event"
  ELSE IF includesChars(toLowerCase(caption), <<"p", "o", "l", "l">>) THEN "poll"
  ELSE "post"

\* content-extractor.js lines 177-203: the record built for element i at time now
postData(element, i, now) ==
  LET caption == getTextBySelectors(element.text)
  IN  [id          |-> [index |-> i, at |-> now],
       type        |-> determinePostType(element, caption),
       url         |-> "page",
       caption     |-> caption,
       reactions   |-> IntRat(getNumberBySelectors(element.reactions)),
       comments    |-> IntRat(getNumberBySelectors(element.comments)),
       shares      |-> IntRat(getNumberBySelectors(element.shares)),
       publishDate |-> element.time,
       author      |-> [name |-> getTextBySelectors(element.author), profile |-> <<>>,
                        title |-> <<>>],
       mediaFiles  |-> extractMediaUrls(element),
       hashtags    |-> extractHashtags(caption),
       mentions    |-> extractMentions(caption),
       engagement  |-> [rate |-> IntRat(0), score |-> IntRat(0)]]

RECURSIVE collectPosts(_, _, _, _, _)
\* content-extractor.js lines 171-213: the loop over the post elements, from
\* element i on (counted from 0), with `posts` collected so far
collectPosts(elements, i, limit, posts, now) ==
  IF ~(i < Len(elements) /\ (limit.null \/ Len(posts) < limit.n)) THEN posts
  ELSE LET element == elements[i + 1]
           data    == postData(element, i, now)
       IN  IF ~element.throws /\ (data.caption # <<>> \/ Len(data.mediaFiles) > 0)
           THEN collectPosts(elements, i + 1, limit, Append(posts, data), now)
           ELSE collectPosts(elements, i + 1, limit, posts, now)

RECURSIVE relativeMatch(_, _)
\* dateString.match(/(\d+)([hdwm])/) from index i on: <<>> when nothing
\* matches, else the index of the first digit matched and that of the unit
relativeMatch(s, i) ==
  IF i > Len(s) THEN <<>>
  ELSE IF s[i] \in Digits
    THEN LET e == runEnd(s, i, Digits)
         IN  IF e <= Len(s) /\ s[e] \in {"h", "d", "w", "m"} THEN <<i, e>>
             ELSE relativeMatch(s, e)
  ELSE relativeMatch(s, i + 1)

\* content-extractor.js lines 265-306: an ISO text and a text of another
\* format are kept as they stand; a relative date is the clock reading `now`
\* less `value` units
formatDate(dateString, now) ==
  LET kept(kind) == [kind |-> kind, text |-> dateString, value |-> 0, unit |-> "", at |-> 0]
      match      == relativeMatch(dateString, 1)
  IN  IF dateString = <<>> THEN kept("empty")
      ELSE IF includesChars(dateString, <<"T">>) THEN kept("iso")
      ELSE IF match # <<>>
        THEN [kind  |-> "relative", text |-> <<>>,
              value |-> parseDigits(SubSeq(dateString, match[1], match[2] - 1), 0),
              unit  |-> dateString[match[2]], at |-> now]
      ELSE kept("other")

\* content-extractor.js lines 233-235: Math.round(total / max(reactions, 1) * 100) / 100
engagementRate(post) ==
  LET total == post.reactions.n + post.comments.n + post.shares.n
      base  == Max(post.reactions.n, 1)
  IN  IF total > 0 THEN Norm((200 * total + base) \div (2 * base), 100) ELSE IntRat(0)

\* content-extractor.js line 238
engagementScore(post) ==
  RatAdd(post.reactions,
         RatAdd(RatMul(post.comments, IntRat(3)), RatMul(post.shares, IntRat(5))))

\* a variant of the post-processing that writes the formatted date's clock
\* reading where the caption goes
postProcessPostsStamped(posts, now) ==
  [i \in DOMAIN posts |->
     [posts[i] EXCEPT !.caption = IF formatDate(posts[i].publishDate, now).kind = "relative"
                                  THEN <<now>> ELSE cleanText(@)]]

\* content-extractor.js lines 230-253
postProcessPosts(posts, now) ==
  [i \in DOMAIN posts |->
     [posts[i] EXCEPT
        !.engagement  = [rate |-> engagementRate(posts[i]), score |-> engagementScore(posts[i])],
        !.caption     = cleanText(@),
        !.publishDate = formatDate(@, now),
        !.mediaFiles  = SelectSeq(@, LAMBDA media : media.url # <<>>
                                                      /\ startsWithHttp(media.url))]]

\* content-extractor.js lines 57-228: ContentExtractor.extractPosts over a
\* snapshot of the page, read at the clock reading `now`; a page whose script
\* cannot be evaluated gives no post
extractPostsFrom(snapshot, limit, now) ==
  IF ~snapshot.evaluates THEN <<>>
  ELSE postProcessPosts(collectPosts(snapshot.elements, 0, limit, <<>>, now), now)

\* JavaScript values as the adapter meets them in a response
Undefined == [t |-> "undefined"]

Null == [t |-> "null"]

Num(v) == [t |-> "number", v |-> v]

Str(s) == [t |-> "string", s |-> s]

Arr(items) == [t |-> "array", items |-> items]

\* whether a value counts as true in `a || b` and `!a`
truthy(value) ==
  CASE value.t \in {"undefined", "null"} -> FALSE
    [] value.t = "number" -> ~isNaN(value.v) /\ value.v.n # 0
    [] value.t = "string" -> value.s # <<>>
    [] OTHER -> TRUE

\* a || b
or(a, b) == IF truthy(a) THEN a ELSE b

\* value[name]; a property a string does not have is undefined
property(value, name) ==
  IF value.t = "object" /\ name \in DOMAIN value THEN value[name] ELSE Undefined

RECURSIVE Pow10(_)
Pow10(n) == IF n = 0 THEN 1 ELSE 10 * Pow10(n - 1)

\* parseFloat over a text of digits and dots
parseFloat(s) ==
  LET intEnd  == runEnd(s, 1, Digits)
      whole   == SubSeq(s, 1, intEnd - 1)
      fracEnd == IF intEnd <= Len(s) /\ s[intEnd] = "." THEN runEnd(s, intEnd + 1, Digits)
                 ELSE intEnd + 1
      frac    == SubSeq(s, intEnd + 1, fracEnd - 1)
  IN  IF whole = <<>> /\ frac = <<>> THEN NaN
      ELSE Norm(parseDigits(whole, 0) * Pow10(Len(frac)) + parseDigits(frac, 0),
                Pow10(Len(frac)))

\* Math.floor(num * factor)
floorTimes(num, factor) ==
  IF isNaN(num) THEN NaN ELSE IntRat(Floor(RatMul(num, IntRat(factor))))

\* test-actor.js lines 488-501
parseNumber(value) ==
  IF value.t = "number" THEN value.v
  ELSE IF value.t = "string"
    THEN LET cleanValue == SelectSeq(value.s, LAMBDA c : c \in Digits \cup {"."})
             num        == parseFloat(cleanValue)
         IN  IF includesChars(toLowerCase(value.s), <<"k">>) THEN floorTimes(num, 1000)
             ELSE IF includesChars(toLowerCase(value.s), <<"m">>)
               THEN floorTimes(num, 1000000)
             ELSE IF isNaN(num) THEN IntRat(0) ELSE floorTimes(num, 1)
  ELSE IntRat(0)

RECURSIVE matchUrls(_, _)
\* s.match(/(https?:\/\/[^\s]+)/g) from index i on; the scheme is one
\* element of the text
matchUrls(s, i) ==
  IF i > Len(s) THEN <<>>
  ELSE IF s[i] \in {"http://", "https://"} /\ i < Len(s) /\ s[i + 1] \notin Whitespace
    THEN LET stop == CHOOSE e \in (i + 1)..(Len(s) + 1) :
                       /\ e = Len(s) + 1 \/ s[e] \in Whitespace
                       /\ \A k \in (i + 1)..(e - 1) : s[k] \notin Whitespace
         IN  <<SubSeq(s, i, stop - 1)>> \o matchUrls(s, stop)
  ELSE matchUrls(s, i + 1)

\* test-actor.js lines 503-512
parseMediaUrls(mediaData) ==
  IF ~truthy(mediaData) THEN <<>>
  ELSE IF mediaData.t = "array" THEN mediaData.items
  ELSE IF mediaData.t = "string"
    THEN LET urls == matchUrls(mediaData.s, 1) IN [i \in DOMAIN urls |-> Str(urls[i])]
  ELSE <<>>

\* test-actor.js lines 514-523
parseHashtags(hashtagData) ==
  IF ~truthy(hashtagData) THEN <<>>
  ELSE IF hashtagData.t = "array" THEN hashtagData.items
  ELSE IF hashtagData.t = "string" THEN matchAll(hashtagData.s, 1, "#", WordChars)
  ELSE <<>>

\* test-actor.js lines 525-534
parseMentions(mentionData) ==
  IF ~truthy(mentionData) THEN <<>>
  ELSE IF mentionData.t = "array" THEN mentionData.items
  ELSE IF mentionData.t = "string" THEN matchAll(mentionData.s, 1, "@", WordChars)
  ELSE <<>>

\* reading a property of null or undefined raises a TypeError
TypeError == <<"Cannot", "read", "properties">>

throwsOnRead(value) == value.t \in {"undefined", "null"}

\* test-actor.js lines 446-460
createPostObject(rawPost, now) ==
  [id          |-> [at |-> now],
   content     |-> or(property(rawPost, "post content text"),
                      or(property(rawPost, "content"), Str(<<>>))),
   publishDate |-> or(property(rawPost, "post date"), or(property(rawPost, "date"), Null)),
   reactions   |-> parseNumber(or(property(rawPost, "like count"),
                                  property(rawPost, "likes"))),
   comments    |-> parseNumber(or(property(rawPost, "comment count"),
                                  property(rawPost, "comments"))),
   shares      |-> parseNumber(or(property(rawPost, "share count"),
                                  property(rawPost, "shares"))),
   mediaFiles  |-> parseMediaUrls(or(property(rawPost, "post media urls"),
                                     property(rawPost, "media"))),
   hashtags    |-> parseHashtags(property(rawPost, "hashtags")),
   mentions    |-> parseMentions(property(rawPost, "mentions")),
   source      |-> "jigsawstack",
   rawData     |-> rawPost]

\* test-actor.js lines 418-444
parsePostsData(postsResponse, now) ==
  IF ~(truthy(postsResponse) /\ truthy(property(postsResponse, "data"))) THEN <<>>
  ELSE LET data == property(postsResponse, "data")
       IN  IF data.t = "array"
           THEN IF \E i \in DOMAIN data.items : throwsOnRead(data.items[i]) THEN <<>>
                ELSE [i \in DOMAIN data.items |-> createPostObject(data.items[i], now)]
           ELSE <<createPostObject(data, now)>>

\* test-actor.js lines 462-486, of which the name, the url and the mark of
\* the stage
structureProfileData(profileResponse, postsData, profileUrl) ==
  [profile |-> [name      |-> or(property(property(profileResponse, "data"), "full name"),
                                 Str(<<"Unknown">>)),
                url       |-> profileUrl,
                scrapedBy |-> "jigsawstack"],
   posts   |-> postsData]

InitializationFailed == <<"JigsawStack", "initialization", "failed">>

ServiceError == <<"Request", "failed">>

\* test-actor.js lines 408-414
failure(message) == [success |-> FALSE, error |-> message, source |-> "jigsawstack"]

\* test-actor.js lines 315-329
adapterInitialize(service) == service.apiKey /\ ~service.clientThrows

\* test-actor.js lines 331-416 once the posts of the activity page are settled
scrapeWith(service, profileUrl, postsData) ==
  IF ~adapterInitialize(service) THEN failure(InitializationFailed)
  ELSE IF service.profile.throws THEN failure(ServiceError)
  ELSE IF throwsOnRead(service.profile.response) THEN failure(TypeError)
  ELSE LET structuredData ==
             structureProfileData(service.profile.response, postsData, profileUrl)
       IN  [success         |-> TRUE,
            profileMetadata |-> structuredData.profile,
            posts           |-> structuredData.posts,
            source          |-> "jigsawstack"]

\* a variant that lets a failure of the activity request end the whole call
scrapeLinkedInProfileUnguarded(service, profileUrl, now) ==
  IF adapterInitialize(service) /\ ~service.profile.throws /\ service.activity.throws
  THEN failure(ServiceError)
  ELSE scrapeWith(service, profileUrl, parsePostsData(service.activity.response, now))

\* test-actor.js lines 331-416: JigsawStackFallback.scrapeLinkedInProfile of a
\* new adapter against a service that answers as `service` says
scrapeLinkedInProfile(service, profileUrl, now) ==
  scrapeWith(service, profileUrl,
             IF service.activity.throws THEN <<>>
             ELSE parsePostsData(service.activity.response, now))

\* the pages and the service answers tried
BlankElement ==
  [text |-> <<>>, author |-> <<>>, time |-> <<>>, reactions |-> <<>>, comments |-> <<>>,
   shares |-> <<>>, images |-> <<>>, videos |-> <<>>, documents |-> <<>>,
   marker |-> "none", throws |-> FALSE]

MediaUrl == <<"https://", "media.licdn.com", "a.jpg">>

ProfileImageUrl == <<"https://", "media.licdn.com", "profile", "p.jpg">>

InlineImageUrl == <<"data:image", "png">>

BlobUrl == <<"blob:", "video">>

RelativeUrl == <<"", "feed", "doc">>

\* the post elements a page is made of
SampleElements ==
  { BlankElement,
    [BlankElement EXCEPT !.throws = TRUE],
    [BlankElement EXCEPT !.text = << <<" ", "H", "i", " ", "#", "a", "i", " ", "@", "b", "o",
                                       "b", "LF">> >>,
                         !.author = << <<"A", "n", "n">> >>,
                         !.time = <<"2", "h">>,
                         !.reactions = << <<"1", ",", "2", "3", "4">> >>,
                         !.comments = << <<"5", " ", "c", "o", "m", "m", "e", "n", "t", "s">> >>],
    [BlankElement EXCEPT !.text = << <<"#", "a", "i", " ", "#", "a", "i", " ", "@", "b", " ",
                                       "@", "b">> >>,
                         !.time = <<"2", "0", "2", "4", "T", "1", "0">>,
                         !.reactions = << <<"n", "o", "n", "e">> >>,
                         !.shares = << <<"3">> >>],
    [BlankElement EXCEPT !.videos = <<BlobUrl>>, !.time = <<"1", "2", "d">>],
    [BlankElement EXCEPT !.text = << EllipsisLiteral >>, !.time = <<"M", "a", "y">>],
    [BlankElement EXCEPT !.text = << <<"P", "o", "l", "l", " ", " ", "n", "o", "w">>
                                       \o EllipsisLiteral >>,
                         !.comments = << <<"2">> >>],
    [BlankElement EXCEPT !.images = <<MediaUrl, ProfileImageUrl, InlineImageUrl>>,
                         !.reactions = << <<"7">> >>, !.comments = << <<"1">> >>,
                         !.shares = << <<"2">> >>],
    [BlankElement EXCEPT !.images = <<RelativeUrl>>,
                         !.documents = << [href |-> <<"https://", "host", "pulse">>,
                                           text |-> "Report"] >>,
                         !.marker = "newsletter"],
    [BlankElement EXCEPT !.text = << <<" ", "LF">> >>, !.marker = "event",
                         !.documents = << [href |-> <<>>, text |-> ""] >>] }

RECURSIVE SeqsUpTo(_, _)
\* the sequences of at most n members of S
SeqsUpTo(S, n) ==
  IF n = 0 THEN {<<>>}
  ELSE LET shorter == SeqsUpTo(S, n - 1)
       IN  shorter \cup {Append(s, x) : s \in shorter, x \in S}

\* snapshots of a page: its post elements, and whether its script can be run
Snapshots == [elements : SeqsUpTo(SampleElements, MaxElements), evaluates : BOOLEAN]

\* the maxPosts argument: null, or a number
Limits == {[null |-> TRUE, n |-> 0]} \cup {[null |-> FALSE, n |-> n] : n \in 0..MaxElements}

EmptyObject == [t |-> "object"]

Object(fields) == EmptyObject @@ fields

\* the items a response lists as posts
RawPosts ==
  { Null,
    EmptyObject,
    Object([content |-> Str(<<"H", "i">>), likes |-> Num(IntRat(5)),
            comments |-> Str(<<"1", ".", "2", "K">>),
            shares |-> Str(<<"u", "n", "k", "n", "o", "w", "n">>),
            media |-> Str(<<"s", "e", "e", " ", "https://", "x", " ", "ftp://", "y">>),
            hashtags |-> Str(<<"#", "a", "i", " ", "#", "a", "i">>),
            mentions |-> Arr(<< <<"@", "b", "o", "b">> >>)]),
    Object([content |-> Num(IntRat(0)), likes |-> Num(IntRat(-1)),
            comments |-> Num(Norm(3, 2)), shares |-> Str(<<"5", "0", "0", "+">>),
            media |-> Arr(<<Str(<<"x">>)>>), date |-> Str(<<"2", "h">>),
            hashtags |-> Arr(<< <<"a", "i">> >>)]),
    Object(("post content text" :> Str(<<"#", "a">>)) @@ ("like count" :> Str(<<"1", "2">>))),
    Object([content |-> Undefined, likes |-> Num(NaN), comments |-> Str(<<"2", "M">>),
            shares |-> Null, hashtags |-> Str(<<"n", "o", "n", "e">>)]) }

Response(data) == Object([data |-> data])

\* how a request to the service ends: it throws, or it gives a response
Outcome(response) == [throws |-> FALSE, response |-> response]

Thrown == [throws |-> TRUE, response |-> Undefined]

ProfileOutcomes ==
  { Thrown, Outcome(Undefined), Outcome(EmptyObject),
    Outcome(Response(Object("full name" :> Str(<<"A", "n", "n">>)))) }

ActivityOutcomes ==
  { Thrown, Outcome(Undefined), Outcome(Response(Undefined)),
    Outcome(Response(Str(<<"n", "o", "n", "e">>))) }
    \cup {Outcome(Response(raw)) : raw \in RawPosts \ {Null}}
    \cup {Outcome(Response(Arr(items))) : items \in SeqsUpTo(RawPosts, MaxRawPosts)}

Services ==
  [apiKey : BOOLEAN, clientThrows : BOOLEAN, profile : ProfileOutcomes,
   activity : ActivityOutcomes]

NoService == [apiKey |-> FALSE, clientThrows |-> FALSE, profile |-> Thrown, activity |-> Thrown]

NoSnapshot == [elements |-> <<>>, evaluates |-> FALSE]

NoPage == [of |-> "none", snapshot |-> NoSnapshot, limit |-> [null |-> TRUE, n |-> 0],
           service |-> NoService]

NoProduced == [first |-> <<>>, second |-> <<>>, adapter |-> <<>>]

\* part_003 lines 289-292: a SelectorUpdater as constructed; customSelectors
\* holds, for the field looked at, the string added, if any
SelectorUpdaterNew == [customSelectors |-> <<>>, selectorPerformance |-> <<>>]

NoPosts == page = NoPage /\ produced = NoProduced /\ selectorUpdater = SelectorUpdaterNew

----------------------------------------------------------------------------
(* SpecRL: one RateLimiter constructed with any options, on which one      *)
(* caller makes recordSuccess, recordFailure, reset and delay calls.       *)

DelayOptions ==
  [ baseDelay : {0, 2, 12000, -2000}, maxDelay : {0, 5} ]

RLOptions ==
  { [baseDelay |-> o.baseDelay, maxDelay |-> o.maxDelay,
     maxRequestsPerWindow |-> w[1], windowSize |-> w[2]] :
       o \in DelayOptions, w \in {<<0, 0>>, <<1, 4>>} }

NoCall == [op |-> "new", arg |-> FALSE, by |-> "c1"]

InitRL ==
  /\ clock = ClockOrigin
  /\ \E o \in RLOptions : rateLimiter = RateLimiterNew(o, ClockOrigin)
  /\ inflight = [p \in Callers |-> IdleCall]
  /\ budget = [records |-> MaxRecords, delays |-> MaxRLDelays, ticks |-> 0]
  /\ lastCall = NoCall
  /\ NoScraper
  /\ NoPosts

NextRL ==
  \/ \E p \in SeqCallers : callDelay(p)
  \/ \E p \in SeqCallers : windowWaitOver(p)
  \/ \E p \in SeqCallers : adaptiveWaitOver(p)
  \/ recordSuccess
  \/ recordFailure
  \/ reset

SpecRL == InitRL /\ [][NextRL]_vars

----------------------------------------------------------------------------
(* SpecWindow: sequential delay() calls of one caller, with time passing   *)
(* between the calls.                                                      *)

WindowOptions ==
  { [baseDelay |-> d[1], maxDelay |-> d[2],
     maxRequestsPerWindow |-> m, windowSize |-> w] :
       d \in {<<0, 0>>, <<2, 5>>}, m \in {0, 1, 2}, w \in {0, 4} }

InitWindow ==
  /\ clock = ClockOrigin
  /\ \E o \in WindowOptions : rateLimiter = RateLimiterNew(o, ClockOrigin)
  /\ inflight = [p \in Callers |-> IdleCall]
  /\ budget = [records |-> 0, delays |-> MaxDelayCalls, ticks |-> MaxTicks]
  /\ lastCall = NoCall
  /\ NoScraper
  /\ NoPosts

NextWindow ==
  \/ \E p \in SeqCallers : callDelay(p)
  \/ \E p \in SeqCallers : windowWaitOver(p)
  \/ \E p \in SeqCallers : adaptiveWaitOver(p)
  \/ Tick

SpecWindow == InitWindow /\ [][NextWindow]_vars

----------------------------------------------------------------------------
(* SpecConc: several delay() calls in flight on one RateLimiter,           *)
(* interleaving at their suspension points.                                *)

ConcOptions ==
  { [baseDelay |-> 2, maxDelay |-> 5, maxRequestsPerWindow |-> m, windowSize |-> 4] :
       m \in {1, 2} }

InitConc ==
  /\ clock = ClockOrigin
  /\ \E o \in ConcOptions : rateLimiter = RateLimiterNew(o, ClockOrigin)
  /\ inflight = [p \in Callers |-> IdleCall]
  /\ budget = [records |-> 0, delays |-> MaxDelayCalls, ticks |-> 0]
  /\ lastCall = NoCall
  /\ NoScraper
  /\ NoPosts

NextConc ==
  \/ \E p \in ConcCallers : callDelay(p)
  \/ \E p \in ConcCallers : windowWaitOver(p)
  \/ \E p \in ConcCallers : adaptiveWaitOver(p)

SpecConc == InitConc /\ [][NextConc]_vars

----------------------------------------------------------------------------
(* Spec: one run of the scraper as Actor.main drives it: initialize, login *)
(* when credentials are given, scrapeProfile, export, close.               *)
(* The scraper's RateLimiter has the default ceiling of 30 calls a window, *)
(* which the few delay() calls of a run with MaxPagePosts posts stay below. *)

Init ==
  /\ clock = ClockOrigin
  /\ rateLimiter = RateLimiterNew([baseDelay |-> 0, maxDelay |-> 0,
                                   maxRequestsPerWindow |-> 0, windowSize |-> 0],
                                  ClockOrigin)
  /\ inflight = [p \in Callers |-> IdleCall]
  /\ budget = [records |-> 0, delays |-> 0, ticks |-> 0]
  /\ lastCall = NoCall
  /\ pc = "initialize"
  /\ \E given \in GivenOptions : options = ScraperOptions(given)
  /\ input \in [hasCredentials : BOOLEAN, profileUrl : RunUrls]
  /\ browser = NoBrowser
  /\ scraper = NewScraper
  /\ sp = NoLocals
  /\ result = NoResult
  /\ NoPosts

Next ==
  \/ initialize
  \/ callLogin
  \/ scrapeProfile
  \/ navigateProfile
  \/ delayCall("delayAfterProfile", "extractMetadata")
  \/ extractMetadata
  \/ navigateActivity
  \/ delayCall("delayAfterActivity", "loadAllPosts")
  \/ loadAllPostsScroll
  \/ countPosts
  \/ loadAllPostsDone
  \/ extractPosts
  \/ scrapeCatch
  \/ alternative
  \/ alternativeExtract
  \/ alternativeNext
  \/ tryJigsawStackFallback
  \/ export
  \/ mainCatch
  \/ close
  \/ adaptiveWaitOver("c1")

Spec == Init /\ [][Next]_vars

----------------------------------------------------------------------------
(* SpecPosts: the ContentExtractor run twice over one snapshot of a page,  *)
(* or the adapter run against one service, over the pages and answers      *)
(* below.                                                                  *)

InitPosts ==
  /\ clock = ClockOrigin
  /\ rateLimiter = RateLimiterNew([baseDelay |-> 0, maxDelay |-> 0,
                                   maxRequestsPerWindow |-> 0, windowSize |-> 0],
                                  ClockOrigin)
  /\ inflight = [p \in Callers |-> IdleCall]
  /\ budget = [records |-> 0, delays |-> 0, ticks |-> 0]
  /\ lastCall = NoCall
  /\ NoScraper
  /\ \/ \E snapshot \in Snapshots, limit \in Limits :
          page = [NoPage EXCEPT !.of = "dom", !.snapshot = snapshot, !.limit = limit]
     \/ \E service \in Services : page = [NoPage EXCEPT !.of = "service", !.service = service]
  /\ produced = NoProduced
  /\ selectorUpdater = SelectorUpdaterNew

\* the clock readings a call may see after the clock reading of the call before
Elapsed == {0, 1}

\* a first ContentExtractor.extractPosts call over the page
extractOnce ==
  /\ page.of = "dom"
  /\ produced.first = <<>>
  /\ \E d \in Elapsed :
       /\ clock' = clock + d
       /\ produced' = [produced EXCEPT
                         !.first = <<extractPostsFrom(page.snapshot, page.limit, clock')>>]
  /\ UNCHANGED <<rateLimiter, inflight, budget, lastCall, page, selectorUpdater,
               pc, options, input, browser, scraper, sp, result>>

\* a second call over the same page, which has not changed
extractAgain ==
  /\ page.of = "dom"
  /\ produced.first # <<>>
  /\ produced.second = <<>>
  /\ \E d \in Elapsed :
       /\ clock' = clock + d
       /\ produced' = [produced EXCEPT
                         !.second = <<extractPostsFrom(page.snapshot, page.limit, clock')>>]
  /\ UNCHANGED <<rateLimiter, inflight, budget, lastCall, page, selectorUpdater,
               pc, options, input, browser, scraper, sp, result>>

\* a JigsawStackFallback.scrapeLinkedInProfile call of a new adapter
adapterScrape ==
  /\ page.of = "service"
  /\ produced.adapter = <<>>
  /\ \E d \in Elapsed :
       /\ clock' = clock + d
       /\ produced' = [produced EXCEPT
                         !.adapter = <<scrapeLinkedInProfile(page.service, input.profileUrl,
                                                             clock')>>]
  /\ UNCHANGED <<rateLimiter, inflight, budget, lastCall, page, selectorUpdater,
               pc, options, input, browser, scraper, sp, result>>

NextPosts == extractOnce \/ extractAgain \/ adapterScrape

SpecPosts == InitPosts /\ [][NextPosts]_vars

----------------------------------------------------------------------------
(* Dates: the Date arithmetic of ContentExtractor.formatDate. An instant   *)
(* is a whole number of hours since the first hour of EpochYear, in UTC;   *)
(* the minutes and seconds of an instant are not touched by formatDate.    *)

\* bound of the labels tried: the greatest <n>
MaxLabelValue == 13

EpochYear == 2020

HoursPerDay == 24

DaysPerWeek == 7

MonthsPerYear == 12

Years == EpochYear..(EpochYear + 6)

isLeapYear(y) == y % 4 = 0 /\ (y % 100 # 0 \/ y % 400 = 0)

\* the days of month m (0 is January) of year y
daysInMonth(y, m) ==
  IF m = 1 THEN (IF isLeapYear(y) THEN 29 ELSE 28)
  ELSE IF m \in {3, 5, 8, 10} THEN 30
  ELSE 31

RECURSIVE daysBeforeMonth(_, _)
daysBeforeMonth(y, m) ==
  IF m = 0 THEN 0 ELSE daysBeforeMonth(y, m - 1) + daysInMonth(y, m - 1)

RECURSIVE daysBeforeYear(_)
daysBeforeYear(y) ==
  IF y <= EpochYear THEN 0
  ELSE daysBeforeYear(y - 1) + (IF isLeapYear(y - 1) THEN 366 ELSE 365)

\* MakeDay of the Date object: the day number of the date, which may lie
\* outside its month, of the month, which may lie outside its year
MakeDay(y, m, date) ==
  LET ym == y + (m \div MonthsPerYear)
      mn == m % MonthsPerYear
  IN  daysBeforeYear(ym) + daysBeforeMonth(ym, mn) + date - 1

MakeTime(day, hour) == day * HoursPerDay + hour

\* getFullYear, getMonth, getDate and getHours of an instant
getFullYear(t) ==
  CHOOSE y \in Years :
    daysBeforeYear(y) <= t \div HoursPerDay /\ t \div HoursPerDay < daysBeforeYear(y + 1)

getMonth(t) ==
  LET y   == getFullYear(t)
      day == (t \div HoursPerDay) - daysBeforeYear(y)
  IN  CHOOSE m \in 0..(MonthsPerYear - 1) :
        daysBeforeMonth(y, m) <= day /\ day < daysBeforeMonth(y, m) + daysInMonth(y, m)

getDate(t) ==
  (t \div HoursPerDay) - daysBeforeYear(getFullYear(t))
    - daysBeforeMonth(getFullYear(t), getMonth(t)) + 1

getHours(t) == t % HoursPerDay

\* setHours, setDate and setMonth: the instant with one field replaced
setHours(t, hour) == MakeTime(MakeDay(getFullYear(t), getMonth(t), getDate(t)), hour)

setDate(t, date) == MakeTime(MakeDay(getFullYear(t), getMonth(t), date), getHours(t))

setMonth(t, month) == MakeTime(MakeDay(getFullYear(t), month, getDate(t)), getHours(t))

\* content-extractor.js lines 277-296: the instant a relative date stands for
relativeInstant(value, unit, now) ==
  CASE unit = "h" -> setHours(now, getHours(now) - value)
    [] unit = "d" -> setDate(now, getDate(now) - value)
    [] unit = "w" -> setDate(now, getDate(now) - value * DaysPerWeek)
    [] unit = "m" -> setMonth(now, getMonth(now) - value)

\* what formatDate returns for a label read at the instant `now`: the instant
\* of a relative date, and the text kept otherwise
formatLabel(label, now) ==
  LET formatted == formatDate(label, now)
  IN  IF formatted.kind = "relative"
      THEN [kind |-> "instant",
            instant |-> relativeInstant(formatted.value, formatted.unit, formatted.at),
            text |-> <<>>]
      ELSE [kind |-> formatted.kind, instant |-> 0, text |-> formatted.text]

DigitChar(k) == CHOOSE c \in Digits : DigitValue(c) = k

\* the decimal digits of a number below 100
decimal(n) == IF n < 10 THEN <<DigitChar(n)>> ELSE <<DigitChar(n \div 10), DigitChar(n % 10)>>

DateUnits == {"h", "d", "w", "m"}

\* the labels '<n>h', '<n>d', '<n>w' and '<n>m'
RelativeLabels == {Append(decimal(n), unit) : n \in 0..MaxLabelValue, unit \in DateUnits}

\* the instant of hour h of the date-th day of month m (0 is January) of year y
At(y, m, date, h) == MakeTime(MakeDay(y, m, date), h)

\* the reference instants tried: ends and starts of months, a leap day, the
\* first and the last hour of a day
ReferenceInstants ==
  { At(2024, 0, 1, 0), At(2024, 0, 31, 23), At(2024, 1, 29, 12), At(2024, 2, 1, 1),
    At(2024, 2, 31, 12), At(2024, 4, 31, 8), At(2024, 6, 15, 10), At(2024, 9, 31, 0),
    At(2024, 11, 31, 23), At(2025, 2, 30, 6) }

\* SpecDates: formatDate called once on a relative label at a reference instant
InitDates ==
  /\ clock = ClockOrigin
  /\ rateLimiter = RateLimiterNew([baseDelay |-> 0, maxDelay |-> 0,
                                   maxRequestsPerWindow |-> 0, windowSize |-> 0],
                                  ClockOrigin)
  /\ inflight = [p \in Callers |-> IdleCall]
  /\ budget = [records |-> 0, delays |-> 0, ticks |-> 0]
  /\ lastCall = NoCall
  /\ NoScraper
  /\ \E label \in RelativeLabels, now \in ReferenceInstants :
       page = [of |-> "label", label |-> label, now |-> now]
  /\ produced = [date |-> <<>>]
  /\ selectorUpdater = SelectorUpdaterNew

\* content-extractor.js line 244: the label of a post goes through formatDate
formatPublishDate ==
  /\ page.of = "label"
  /\ produced.date = <<>>
  /\ produced' = [date |-> <<formatLabel(page.label, page.now)>>]
  /\ UNCHANGED <<rlVars, page, selectorUpdater, pc, options, input, browser, scraper, sp, result>>

NextDates == formatPublishDate

SpecDates == InitDates /\ [][NextDates]_vars

----------------------------------------------------------------------------
(* Selector lookups: SelectorEngine and the in-page lookups of the         *)
(* ContentExtractor. A candidate list is the sequence of its selectors,    *)
(* each kept as whether the browser accepts it as a CSS selector; a        *)
(* document is given by what each candidate finds in it.                   *)

\* bound of the candidate lists tried
MaxCandidates == 5

ValidSelector == [valid |-> TRUE]

\* a selector with a jQuery pseudo-class: querySelector, $$ and
\* waitForSelector raise a SyntaxError on it
InvalidSelector == [valid |-> FALSE]

\* SELECTORS.profile.connections: the second candidate is
\* '.pv-top-card--list-bullet li:contains("connection")'
ProfileConnections == <<ValidSelector, InvalidSelector, ValidSelector, ValidSelector>>

\* SELECTORS.posts.engagement.comments
PostsComments == [i \in 1..MaxCandidates |-> ValidSelector]

\* SELECTORS.auth.loginEmail: one selector, not a list
AuthLoginEmail == <<ValidSelector>>

CandidateLists == {ProfileConnections, PostsComments, AuthLoginEmail}

NoMatch == [present |-> FALSE, text |-> <<>>]

Match(text) == [present |-> TRUE, text |-> text]

MatchTexts == {<<>>, <<" ", "7", " ">>, <<"1", ",", "2", " ", "c">>, <<"a">>}

\* the documents seen through a candidate list: what each candidate finds
Documents(selectors) ==
  [1..Len(selectors) -> {NoMatch} \cup {Match(text) : text \in MatchTexts}]

Returned(value) == [throws |-> FALSE, value |-> value]

Raised == [throws |-> TRUE, value |-> Null]

\* the element handle of the i-th candidate's match
Handle(i, text) == [t |-> "element", selector |-> i, text |-> text]

\* page.waitForSelector(selector, {timeout, visible: true}): the handle, a
\* TimeoutError when nothing matches in time, a SyntaxError on a bad selector
waitForSelector(dom, selectors, i) ==
  IF selectors[i].valid /\ dom[i].present THEN Returned(Handle(i, dom[i].text))
  ELSE Raised

\* page.$$(selector): the handles of the matches
querySelectorAll(dom, selectors, i) ==
  IF ~selectors[i].valid THEN Raised
  ELSE IF dom[i].present THEN Returned(<<Handle(i, dom[i].text)>>)
  ELSE Returned(<<>>)

\* document.querySelector(selector), element.querySelector(selector)
querySelector(dom, selectors, i) ==
  IF ~selectors[i].valid THEN Raised
  ELSE IF dom[i].present THEN Returned(Handle(i, dom[i].text))
  ELSE Returned(Null)

RECURSIVE findElementFrom(_, _, _)
\* part_003 lines 179-190: the loop of findElement from candidate i on
findElementFrom(dom, selectors, i) ==
  IF i > Len(selectors) THEN Returned(Null)
  ELSE LET element == waitForSelector(dom, selectors, i)
       IN  IF ~element.throws /\ element.value # Null THEN element
           ELSE findElementFrom(dom, selectors, i + 1)

findElement(dom, selectors) == findElementFrom(dom, selectors, 1)

RECURSIVE findElementsFrom(_, _, _)
\* part_003 lines 196-204: the loop of findElements from candidate i on
findElementsFrom(dom, selectors, i) ==
  IF i > Len(selectors) THEN Returned(<<>>)
  ELSE LET elements == querySelectorAll(dom, selectors, i)
       IN  IF ~elements.throws /\ elements.value # <<>> THEN elements
           ELSE findElementsFrom(dom, selectors, i + 1)

findElements(dom, selectors) == findElementsFrom(dom, selectors, 1)

\* part_003 lines 207-213
getText(dom, selectors) ==
  LET element == findElement(dom, selectors)
  IN  IF element.value # Null THEN Returned(trim(element.value.text)) ELSE Returned(<<>>)

\* part_003 lines 215-221; `held` is what el.getAttribute(attribute) gives,
\* null when the element has no such attribute
getAttribute(dom, selectors, held) ==
  LET element == findElement(dom, selectors)
  IN  IF element.value # Null THEN Returned(held) ELSE Returned(<<>>)

RECURSIVE firstFound(_, _, _)
\* content-extractor.js lines 15-18, 66-69 and 74-81: the loop of an in-page
\* lookup from candidate i on; the value is <<>> when no candidate matches,
\* else <<textContent>> of the first match
firstFound(dom, selectors, i) ==
  IF i > Len(selectors) THEN Returned(<<>>)
  ELSE LET found == querySelector(dom, selectors, i)
       IN  IF found.throws THEN Raised
           ELSE IF found.value # Null THEN Returned(<<found.value.text>>)
           ELSE firstFound(dom, selectors, i + 1)

\* getTextBySelectors and getNumberBySelectors over the candidate list
textBySelectors(dom, selectors) ==
  LET found == firstFound(dom, selectors, 1)
  IN  IF found.throws THEN Raised ELSE Returned(getTextBySelectors(found.value))

numberBySelectors(dom, selectors) ==
  LET found == firstFound(dom, selectors, 1)
  IN  IF found.throws THEN Raised ELSE Returned(getNumberBySelectors(found.value))

NoLookups == [engine |-> <<>>, inPage |-> <<>>]

\* SpecLookup: one document, looked up once through SelectorEngine and once
\* by the in-page lookups
InitLookup ==
  /\ clock = ClockOrigin
  /\ rateLimiter = RateLimiterNew([baseDelay |-> 0, maxDelay |-> 0,
                                   maxRequestsPerWindow |-> 0, windowSize |-> 0],
                                  ClockOrigin)
  /\ inflight = [p \in Callers |-> IdleCall]
  /\ budget = [records |-> 0, delays |-> 0, ticks |-> 0]
  /\ lastCall = NoCall
  /\ NoScraper
  /\ \E selectors \in CandidateLists : \E dom \in Documents(selectors) :
       page = [of |-> "document", selectors |-> selectors, dom |-> dom]
  /\ produced = NoLookups
  /\ selectorUpdater = SelectorUpdaterNew

\* the SelectorEngine functions called on the document
engineLookup ==
  /\ page.of = "document"
  /\ produced.engine = <<>>
  /\ \E held \in {Null, Str(<<"u">>)} :
       produced' = [produced EXCEPT !.engine =
         <<[findElement  |-> findElement(page.dom, page.selectors),
            findElements |-> findElements(page.dom, page.selectors),
            getText      |-> getText(page.dom, page.selectors),
            getAttribute |-> getAttribute(page.dom, page.selectors, held),
            held         |-> held]>>]
  /\ UNCHANGED <<rlVars, page, selectorUpdater, pc, options, input, browser, scraper, sp, result>>

\* getTextBySelectors and getNumberBySelectors called in the document
inPageLookup ==
  /\ page.of = "document"
  /\ produced.inPage = <<>>
  /\ produced' = [produced EXCEPT !.inPage =
       <<[text   |-> textBySelectors(page.dom, page.selectors),
          number |-> numberBySelectors(page.dom, page.selectors)]>>]
  /\ UNCHANGED <<rlVars, page, selectorUpdater, pc, options, input, browser, scraper, sp, result>>

NextLookup == engineLookup \/ inPageLookup

SpecLookup == InitLookup /\ [][NextLookup]_vars

----------------------------------------------------------------------------
(* SelectorUpdater: the success and failure counts kept per selector and   *)
(* getOptimizedSelectors over one field, navigation.loadMoreButton.        *)

\* bound of the recordSelectorSuccess and recordSelectorFailure calls of a run
MaxSelectorRecords == 5

\* SELECTORS.navigation.loadMoreButton
DefaultSelectors ==
  <<".scaffold-finite-scroll__load-button", ".pv-profile-section__see-more",
    ".artdeco-button--muted">>

NoPerformance == [success |-> 0, failure |-> 0]

\* this.selectorPerformance[selector] || { success: 0, failure: 0 }
performanceOf(updater, selector) ==
  IF selector \in DOMAIN updater.selectorPerformance
  THEN updater.selectorPerformance[selector]
  ELSE NoPerformance

\* part_003 lines 301-306
recordSelectorSuccessOf(updater, selector) ==
  LET perf == performanceOf(updater, selector)
  IN  [updater EXCEPT !.selectorPerformance =
         [s \in DOMAIN updater.selectorPerformance \cup {selector} |->
            IF s = selector THEN [perf EXCEPT !.success = @ + 1]
            ELSE updater.selectorPerformance[s]]]

\* part_003 lines 308-313
recordSelectorFailureOf(updater, selector) ==
  LET perf == performanceOf(updater, selector)
  IN  [updater EXCEPT !.selectorPerformance =
         [s \in DOMAIN updater.selectorPerformance \cup {selector} |->
            IF s = selector THEN [perf EXCEPT !.failure = @ + 1]
            ELSE updater.selectorPerformance[s]]]

\* part_003 lines 323-327: aRate, as a fraction
selectorRate(updater, selector) ==
  LET perf == performanceOf(updater, selector)
  IN  [n |-> perf.success, d |-> perf.success + perf.failure + 1]

\* part_003 line 329: bRate - aRate > 0, b is to come before a
comesBefore(updater, b, a) ==
  LET aRate == selectorRate(updater, a)
      bRate == selectorRate(updater, b)
  IN  bRate.n * aRate.d > aRate.n * bRate.d

RECURSIVE insertSorted(_, _, _)
\* one step of a stable sort: selector goes after the last entry of the
\* sorted list that it does not come before
insertSorted(updater, sorted, selector) ==
  IF sorted = <<>> THEN <<selector>>
  ELSE LET last == sorted[Len(sorted)]
       IN  IF comesBefore(updater, selector, last)
           THEN Append(insertSorted(updater, SubSeq(sorted, 1, Len(sorted) - 1), selector), last)
           ELSE Append(sorted, selector)

RECURSIVE sortSelectors(_, _, _)
\* Array.prototype.sort with the comparator of line 322: a stable sort
sortSelectors(updater, allSelectors, sorted) ==
  IF allSelectors = <<>> THEN sorted
  ELSE sortSelectors(updater, Tail(allSelectors),
                     insertSorted(updater, sorted, Head(allSelectors)))

\* the selectors a caller adds for the field: a tag name of one character
\* and two class selectors
CustomSelectors == {"a", ".more", ".btn"}

\* the characters of a string, which is what iterating over it yields
characters(string) ==
  CASE string = "a"     -> <<"a">>
    [] string = ".more" -> <<".", "m", "o", "r", "e">>
    [] string = ".btn"  -> <<".", "b", "t", "n">>

\* part_003 lines 294-299: the selector is stored as the value of the field,
\* in place of the one stored before
addCustomSelectorOf(updater, selector) ==
  [updater EXCEPT !.customSelectors = <<selector>>]

\* part_003 lines 315-331: the spread of line 319 iterates over the stored
\* value, a string, or over [] when nothing is stored
getOptimizedSelectors(updater) ==
  LET customSelectors == IF updater.customSelectors = <<>> THEN <<>>
                         ELSE characters(updater.customSelectors[1])
      allSelectors == customSelectors \o DefaultSelectors
  IN  sortSelectors(updater, allSelectors, <<>>)

\* the calls recorded so far
recordedCalls(updater) ==
  LET counts == [s \in DOMAIN updater.selectorPerformance |->
                   updater.selectorPerformance[s].success
                     + updater.selectorPerformance[s].failure]
      RECURSIVE total(_)
      total(S) == IF S = {} THEN 0
                  ELSE LET s == CHOOSE x \in S : TRUE IN counts[s] + total(S \ {s})
  IN  total(DOMAIN counts)

NoOptimized == [optimized |-> <<>>, updater |-> SelectorUpdaterNew]

\* SpecSelectors: a SelectorUpdater on which successes and failures of the
\* field's candidates are recorded and the optimized list is asked for
InitSelectors ==
  /\ clock = ClockOrigin
  /\ rateLimiter = RateLimiterNew([baseDelay |-> 0, maxDelay |-> 0,
                                   maxRequestsPerWindow |-> 0, windowSize |-> 0],
                                  ClockOrigin)
  /\ inflight = [p \in Callers |-> IdleCall]
  /\ budget = [records |-> 0, delays |-> 0, ticks |-> 0]
  /\ lastCall = NoCall
  /\ NoScraper
  /\ page = [of |-> "selectors"]
  /\ produced = NoOptimized
  /\ selectorUpdater = SelectorUpdaterNew

recordSelectorSuccess ==
  /\ page.of = "selectors"
  /\ recordedCalls(selectorUpdater) < MaxSelectorRecords
  /\ \E i \in DOMAIN DefaultSelectors :
       selectorUpdater' = recordSelectorSuccessOf(selectorUpdater, DefaultSelectors[i])
  /\ UNCHANGED <<rlVars, page, produced, pc, options, input, browser, scraper, sp, result>>

recordSelectorFailure ==
  /\ page.of = "selectors"
  /\ recordedCalls(selectorUpdater) < MaxSelectorRecords
  /\ \E i \in DOMAIN DefaultSelectors :
       selectorUpdater' = recordSelectorFailureOf(selectorUpdater, DefaultSelectors[i])
  /\ UNCHANGED <<rlVars, page, produced, pc, options, input, browser, scraper, sp, result>>

\* getOptimizedSelectors called; the state it was called on is kept with
\* what it returned
callGetOptimizedSelectors ==
  /\ page.of = "selectors"
  /\ produced' = [optimized |-> getOptimizedSelectors(selectorUpdater),
                  updater   |-> selectorUpdater]
  /\ UNCHANGED <<rlVars, page, selectorUpdater, pc, options, input, browser, scraper, sp, result>>

NextSelectors == recordSelectorSuccess \/ recordSelectorFailure \/ callGetOptimizedSelectors

SpecSelectors == InitSelectors /\ [][NextSelectors]_vars

addCustomSelector ==
  /\ page.of = "selectors"
  /\ \E selector \in CustomSelectors :
       selectorUpdater' = addCustomSelectorOf(selectorUpdater, selector)
  /\ UNCHANGED <<rlVars, page, produced, pc, options, input, browser, scraper, sp, result>>

\* SpecCustom: the same SelectorUpdater with callers that add selectors
NextCustom == NextSelectors \/ addCustomSelector

SpecCustom == InitSelectors /\ [][NextCustom]_vars

----------------------------------------------------------------------------
(* SpecLoad: a RateLimiter with the default limits that has served a       *)
(* number of requests around the load thresholds, on which delay(),        *)
(* recordFailure() and calculateAdaptiveDelay() are called.                *)

\* bound: how far above the second threshold the request counts tried go
MaxLoadExcess == 20

LoadSamples ==
  {0, LoadThreshold1 - 1, LoadThreshold1, LoadThreshold1 + 1, LoadThreshold2 - 1,
   LoadThreshold2, LoadThreshold2 + 1, LoadThreshold2 + MaxLoadExcess}

InitLoad ==
  /\ clock = ClockOrigin
  /\ \E served \in LoadSamples :
       rateLimiter = [RateLimiterNew([baseDelay |-> 0, maxDelay |-> 0,
                                      maxRequestsPerWindow |-> 0, windowSize |-> 0],
                                     ClockOrigin)
                        EXCEPT !.requestCount = served]
  /\ inflight = [p \in Callers |-> IdleCall]
  /\ budget = [records |-> 1, delays |-> MaxRLDelays, ticks |-> 0]
  /\ lastCall = NoCall
  /\ NoScraper
  /\ page = [of |-> "load"]
  /\ produced = [calculated |-> <<>>]
  /\ selectorUpdater = SelectorUpdaterNew

\* rate-limiter.js lines 53-70: calculateAdaptiveDelay called on the object;
\* the request count it read and the load factor it used are kept with the
\* delay it returned
callCalculateAdaptiveDelay ==
  /\ page.of = "load"
  /\ \E jitter \in JitterSamples :
       produced' = [calculated |->
         <<[requestCount |-> rateLimiter.requestCount,
            loadFactor   |-> loadFactor(rateLimiter.requestCount),
            delay        |-> calculateAdaptiveDelay(rateLimiter, jitter)]>>]
  /\ UNCHANGED <<rlVars, page, selectorUpdater, pc, options, input, browser, scraper, sp, result>>

NextLoad ==
  \/ callDelay("c1")
  \/ adaptiveWaitOver("c1")
  \/ recordFailure
  \/ callCalculateAdaptiveDelay

SpecLoad == InitLoad /\ [][NextLoad]_vars

----------------------------------------------------------------------------
(* SpecLogin: one login() call, taken poll by poll. page.run is what the   *)
(* call meets, produced the position and the locals of the call.           *)

LoginStart == [at |-> "start", polls |-> 0, currentUrl |-> "none", error |-> NoError]

\* the URL the browser shows at the n-th poll of the run l
urlAtPoll(l, n) == IF l.feedAtPoll # 0 /\ n >= l.feedAtPoll THEN "feed" ELSE l.url

InitLogin ==
  /\ clock = ClockOrigin
  /\ rateLimiter = RateLimiterNew([baseDelay |-> 0, maxDelay |-> 0,
                                   maxRequestsPerWindow |-> 0, windowSize |-> 0],
                                  ClockOrigin)
  /\ inflight = [p \in Callers |-> IdleCall]
  /\ budget = [records |-> 0, delays |-> 0, ticks |-> 0]
  /\ lastCall = NoCall
  /\ NoScraper
  /\ \E l \in LoginRuns : page = [of |-> "login", run |-> l]
  /\ produced = LoginStart
  /\ selectorUpdater = SelectorUpdaterNew

\* login() returns true: line 114-118, 133-137, 158-162 and 170-174
loginReturnsTrue ==
  /\ scraper' = [scraper EXCEPT !.isAuthenticated = TRUE]

loginThrows(e) == produced' = [produced EXCEPT !.at = "threw", !.error = e]

\* scraper.js lines 52-112: the pages are opened, the form is filled in and
\* submitted, and the URL is read
loginSubmit ==
  /\ page.of = "login" /\ produced.at = "start"
  /\ IF ~page.run.loads THEN loginThrows(PageError)
     ELSE IF ~page.run.form THEN loginThrows(LoginFormError)
     ELSE IF ~page.run.submit THEN loginThrows(SubmitButtonError)
     ELSE produced' = [produced EXCEPT !.at = "submitted", !.currentUrl = page.run.url]
  /\ UNCHANGED <<rlVars, page, selectorUpdater, pc, options, input, browser, scraper, sp, result>>

\* scraper.js lines 114-146: where the URL read after the submit leads
loginRoute ==
  /\ page.of = "login" /\ produced.at = "submitted"
  /\ IF produced.currentUrl = "feed"
     THEN /\ loginReturnsTrue
          /\ produced' = [produced EXCEPT !.at = "returned"]
     ELSE /\ produced' = [produced EXCEPT !.at =
               CASE produced.currentUrl = "challenge" -> "challenge"
                 [] produced.currentUrl = "verify" -> "skip"
                 [] OTHER -> "finalCheck"]
          /\ UNCHANGED scraper
  /\ UNCHANGED <<rlVars, page, selectorUpdater, pc, options, input, browser, sp, result>>

\* one turn of a polling loop (lines 128-137 and 154-163): the wait, the URL
\* read, and the return when it is the feed's
loginPoll(loop, budgeted) ==
  /\ page.of = "login" /\ produced.at = loop
  /\ produced.polls < budgeted
  /\ LET currentUrl == urlAtPoll(page.run, produced.polls + 1)
     IN  IF currentUrl = "feed"
         THEN /\ loginReturnsTrue
              /\ produced' = [produced EXCEPT !.at = "returned", !.polls = @ + 1,
                                              !.currentUrl = currentUrl]
         ELSE /\ produced' = [produced EXCEPT !.polls = @ + 1, !.currentUrl = currentUrl]
              /\ UNCHANGED scraper
  /\ UNCHANGED <<rlVars, page, selectorUpdater, pc, options, input, browser, sp, result>>

challengePoll == loginPoll("challenge", ChallengePolls)

\* scraper.js line 139: the challenge loop ran out
challengeUnresolved ==
  /\ page.of = "login" /\ produced.at = "challenge"
  /\ produced.polls = ChallengePolls
  /\ loginThrows(CaptchaError)
  /\ UNCHANGED <<rlVars, page, selectorUpdater, pc, options, input, browser, scraper, sp, result>>

\* scraper.js lines 147-151: the skip buttons are looked up and the first is
\* clicked
verificationSkip ==
  /\ page.of = "login" /\ produced.at = "skip"
  /\ IF page.run.skip = "throws" THEN loginThrows(ClickError)
     ELSE produced' = [produced EXCEPT !.at = "verify"]
  /\ UNCHANGED <<rlVars, page, selectorUpdater, pc, options, input, browser, scraper, sp, result>>

verificationPoll == loginPoll("verify", VerificationPolls)

\* scraper.js line 165: the verification loop ran out
verificationUnfinished ==
  /\ page.of = "login" /\ produced.at = "verify"
  /\ produced.polls = VerificationPolls
  /\ produced' = [produced EXCEPT !.at = "finalCheck"]
  /\ UNCHANGED <<rlVars, page, selectorUpdater, pc, options, input, browser, scraper, sp, result>>

\* scraper.js lines 169-180: the URL is read once more
finalCheck ==
  /\ page.of = "login" /\ produced.at = "finalCheck"
  /\ LET outcome == loginFinalCheck(page.run, produced.polls)
     IN  IF outcome.ok
         THEN /\ loginReturnsTrue
              /\ produced' = [produced EXCEPT !.at = "returned",
                                              !.currentUrl = page.run.finalUrl]
         ELSE /\ loginThrows(outcome.error)
              /\ UNCHANGED scraper
  /\ UNCHANGED <<rlVars, page, selectorUpdater, pc, options, input, browser, sp, result>>

NextLogin ==
  \/ loginSubmit
  \/ loginRoute
  \/ challengePoll
  \/ challengeUnresolved
  \/ verificationSkip
  \/ verificationPoll
  \/ verificationUnfinished
  \/ finalCheck

\* every await of login() returns: the call goes on while it has a step to take
SpecLogin == InitLogin /\ [][NextLogin]_vars /\ WF_vars(NextLogin)

----------------------------------------------------------------------------
(* SpecScroll: the two scroll-to-load loops, BrowserManager.scrollToEnd    *)
(* and LinkedInScraper.loadAllPosts, taken attempt by attempt. produced    *)
(* holds the locals of the loop: previous and current are previousHeight   *)
(* and currentHeight, or previousPostCount and postCount.                  *)

\* bound of what a page measures: its height, or the posts it shows
MaxMeasure == 3

\* browser-manager.js line 205: while (stuckCount < 3)
ScrollStuckLimit == 3

Measures == 0..MaxMeasure

\* the stuck limit of a loop
stuckLimit(loop) == IF loop = "scrollToEnd" THEN ScrollStuckLimit ELSE MaxStuckCount

\* history: the attempts in a row, up to now, that brought no growth, counted
\* up to the stuck limit
streakAfter(streak, limit, before, measured) ==
  IF measured > before THEN 0 ELSE Min(streak + 1, limit)

\* a stuck counter that is never reset
stuckCountNeverReset(stuckCount, before, measured) ==
  IF measured = before THEN stuckCount + 1 ELSE stuckCount

\* browser-manager.js lines 218-222 and scraper.js lines 508-514
stuckCountAfter(stuckCount, before, measured) ==
  IF measured = before THEN stuckCount + 1 ELSE 0

LoopLocals ==
  [at |-> "start", previous |-> 0, current |-> 0, stuckCount |-> 0, streak |-> 0,
   endedBy |-> "none"]

InitScroll ==
  /\ clock = ClockOrigin
  /\ rateLimiter = RateLimiterNew([baseDelay |-> 0, maxDelay |-> 0,
                                   maxRequestsPerWindow |-> 0, windowSize |-> 0],
                                  ClockOrigin)
  /\ inflight = [p \in Callers |-> IdleCall]
  /\ budget = [records |-> 0, delays |-> 0, ticks |-> 0]
  /\ lastCall = NoCall
  /\ NoScraper
  /\ \/ page = [of |-> "scroll", loop |-> "scrollToEnd", maxPosts |-> 0]
     \/ \E maxPosts \in {0, MaxMeasure - 1} :
          page = [of |-> "scroll", loop |-> "loadAllPosts", maxPosts |-> maxPosts]
  /\ produced = LoopLocals
  /\ selectorUpdater = SelectorUpdaterNew

scrollUnchanged ==
  UNCHANGED <<rlVars, page, selectorUpdater, pc, options, input, browser, scraper, sp, result>>

\* browser-manager.js lines 201-203: the height is read before the loop
scrollToEndBegin ==
  /\ page.of = "scroll" /\ page.loop = "scrollToEnd" /\ produced.at = "start"
  /\ \E measured \in Measures :
       produced' = [produced EXCEPT !.at = "loop", !.current = measured]
  /\ scrollUnchanged

\* browser-manager.js lines 205-225: one turn of the loop
scrollToEndAttempt ==
  /\ page.of = "scroll" /\ page.loop = "scrollToEnd" /\ produced.at = "loop"
  /\ produced.stuckCount < ScrollStuckLimit
  /\ \E measured \in Measures :
       produced' = [produced EXCEPT
         !.previous = produced.current,
         !.current = measured,
         !.stuckCount = stuckCountAfter(@, produced.current, measured),
         !.streak = streakAfter(@, ScrollStuckLimit, produced.current, measured)]
  /\ scrollUnchanged

\* scraper.js lines 487-490
loadAllPostsBegin ==
  /\ page.of = "scroll" /\ page.loop = "loadAllPosts" /\ produced.at = "start"
  /\ produced' = [produced EXCEPT !.at = "loop"]
  /\ scrollUnchanged

\* scraper.js lines 492-521: one turn of the loop; the scroll, the delay or
\* the count may throw, which ends loadAllPosts (lines 526-529)
loadAllPostsAttempt ==
  /\ page.of = "scroll" /\ page.loop = "loadAllPosts" /\ produced.at = "loop"
  /\ produced.stuckCount < MaxStuckCount
  /\ \/ produced' = [produced EXCEPT !.at = "ended", !.endedBy = "error"]
     \/ \E measured \in Measures :
          IF page.maxPosts # 0 /\ measured >= page.maxPosts
          THEN produced' = [produced EXCEPT !.current = measured, !.at = "ended",
                                            !.endedBy = "limit"]
          ELSE produced' = [produced EXCEPT
                 !.current = measured,
                 !.previous = measured,
                 !.stuckCount = stuckCountAfter(@, produced.previous, measured),
                 !.streak = streakAfter(@, MaxStuckCount, produced.previous, measured)]
  /\ scrollUnchanged

\* the loop condition fails: stuckCount has reached the limit
scrollLoopExit ==
  /\ page.of = "scroll" /\ produced.at = "loop"
  /\ produced.stuckCount >= stuckLimit(page.loop)
  /\ produced' = [produced EXCEPT !.at = "ended", !.endedBy = "stuck"]
  /\ scrollUnchanged

NextScroll ==
  \/ scrollToEndBegin
  \/ scrollToEndAttempt
  \/ loadAllPostsBegin
  \/ loadAllPostsAttempt
  \/ scrollLoopExit

\* every await of a loop returns: the loop goes on while it has a step to take
SpecScroll == InitScroll /\ [][NextScroll]_vars /\ WF_vars(NextScroll)

----------------------------------------------------------------------------
(* Count texts: the text of a count as the page or the fallback service    *)
(* shows it, parsed by the in-page helpers of the ContentExtractor and by  *)
(* JigsawStackFallback.parseNumber.                                        *)

\* bound of the length of the count texts tried
MaxCountLen == 3

\* the characters the count texts tried are made of
CountChars == {"1", "2", "K", "k", "M", "m", " ", ","}

\* '12K', '25 likes' and '500 members'
NamedCountTexts ==
  { <<"1", "2", "K">>,
    <<"2", "5", " ", "l", "i", "k", "e", "s">>,
    <<"5", "0", "0", " ", "m", "e", "m", "b", "e", "r", "s">> }

CountTexts == SeqsUpTo(CountChars, MaxCountLen) \cup NamedCountTexts

\* content-extractor.js lines 22-26: the count of a profile field whose
\* text getTextBySelectors has returned (trimmed, '' when nothing matches)
profileNumber(text) ==
  LET i == firstDigit(text, 1)
  IN  IF i = 0 THEN 0
      ELSE parseDigits(SelectSeq(SubSeq(text, i, groupsEnd(text, i) - 1),
                                 LAMBDA c : c # ","), 0)

\* SpecCounts: one count text parsed by the three parsers
InitCounts ==
  /\ clock = ClockOrigin
  /\ rateLimiter = RateLimiterNew([baseDelay |-> 0, maxDelay |-> 0,
                                   maxRequestsPerWindow |-> 0, windowSize |-> 0],
                                  ClockOrigin)
  /\ inflight = [p \in Callers |-> IdleCall]
  /\ budget = [records |-> 0, delays |-> 0, ticks |-> 0]
  /\ lastCall = NoCall
  /\ NoScraper
  /\ \E text \in CountTexts : page = [of |-> "count", text |-> text]
  /\ produced = [counts |-> <<>>]
  /\ selectorUpdater = SelectorUpdaterNew

\* content-extractor.js lines 32-33 and 187-189, test-actor.js lines 452-454:
\* the text of a count goes through the parser of the component that read it
parseCount ==
  /\ page.of = "count"
  /\ produced.counts = <<>>
  /\ produced' = [counts |-> << [profile |-> profileNumber(trim(page.text)),
                                 post    |-> getNumberBySelectors(<<page.text>>),
                                 adapter |-> parseNumber(Str(page.text))] >>]
  /\ UNCHANGED <<rlVars, page, selectorUpdater, pc, options, input, browser, scraper, sp, result>>

NextCounts == parseCount

SpecCounts == InitCounts /\ [][NextCounts]_vars

----------------------------------------------------------------------------
(* Typing: LinkedInScraper.humanLikeTyping, one loop iteration per step.   *)
(* The field is the sequence of characters it holds; it is empty when the  *)
(* typing starts, so the triple click that selects its text changes        *)
(* nothing. Every awaited call on the page can raise.                      *)

\* bound of the length of the texts typed
MaxTextLen == 3

\* the characters of the texts tried
TextChars == {"a", "@"}

\* String.fromCharCode(97 + ...) of line 225: a lower-case letter
WrongChars == {"a", "q"}

Texts == SeqsUpTo(TextChars, MaxTextLen)

\* the awaited call of one loop iteration that raises, if any
TypingFailures == {"none", "wrong", "backspace", "char"}

TypingStart == [pc |-> "begin", i |-> 1, field |-> <<>>, typos |-> 0, failed |-> FALSE]

\* SpecTyping: one call of humanLikeTyping on an empty field
InitTyping ==
  /\ clock = ClockOrigin
  /\ rateLimiter = RateLimiterNew([baseDelay |-> 0, maxDelay |-> 0,
                                   maxRequestsPerWindow |-> 0, windowSize |-> 0],
                                  ClockOrigin)
  /\ inflight = [p \in Callers |-> IdleCall]
  /\ budget = [records |-> 0, delays |-> 0, ticks |-> 0]
  /\ lastCall = NoCall
  /\ NoScraper
  /\ \E text \in Texts : page = [of |-> "typing", text |-> text]
  /\ produced = TypingStart
  /\ selectorUpdater = SelectorUpdaterNew

\* scraper.js lines 239-243: the catch block is entered
typingCaught(field) == [produced EXCEPT !.pc = "fallback", !.field = field, !.failed = TRUE]

\* scraper.js lines 211-217: focus and the triple click
typingBegin ==
  /\ page.of = "typing"
  /\ produced.pc = "begin"
  /\ \E raises \in BOOLEAN :
       produced' = IF raises THEN typingCaught(produced.field)
                   ELSE [produced EXCEPT !.pc = "loop"]
  /\ UNCHANGED <<rlVars, page, selectorUpdater, pc, options, input, browser, scraper, sp, result>>

\* scraper.js lines 220-242: one iteration of the loop; i counts from 1
typingIteration(typo, wrongChar, raising) ==
  LET char      == page.text[produced.i]
      mistaken  == typo /\ produced.i > 1
      withWrong == Append(produced.field, wrongChar)
  IN  IF mistaken /\ raising = "wrong" THEN typingCaught(produced.field)
      ELSE IF mistaken /\ raising = "backspace" THEN typingCaught(withWrong)
      ELSE IF raising = "char" THEN typingCaught(produced.field)
      ELSE [produced EXCEPT !.field = Append(produced.field, char),
                            !.i = produced.i + 1,
                            !.typos = IF mistaken THEN @ + 1 ELSE @]

typeCharacter ==
  /\ page.of = "typing"
  /\ produced.pc = "loop"
  /\ produced.i <= Len(page.text)
  /\ \E typo \in BOOLEAN, wrongChar \in WrongChars, raising \in TypingFailures :
       produced' = typingIteration(typo, wrongChar, raising)
  /\ UNCHANGED <<rlVars, page, selectorUpdater, pc, options, input, browser, scraper, sp, result>>

\* scraper.js line 220: i < text.length fails, the function returns
typingDone ==
  /\ page.of = "typing"
  /\ produced.pc = "loop"
  /\ produced.i > Len(page.text)
  /\ produced' = [produced EXCEPT !.pc = "returned"]
  /\ UNCHANGED <<rlVars, page, selectorUpdater, pc, options, input, browser, scraper, sp, result>>

\* scraper.js lines 246-248: the whole text is typed again, or the call
\* raises after `typed` of its characters
typingFallback ==
  /\ page.of = "typing"
  /\ produced.pc = "fallback"
  /\ \E typed \in 0..Len(page.text), raises \in BOOLEAN :
       /\ ~raises => typed = Len(page.text)
       /\ produced' = [produced EXCEPT
                         !.pc = IF raises THEN "raised" ELSE "returned",
                         !.field = produced.field \o SubSeq(page.text, 1, typed)]
  /\ UNCHANGED <<rlVars, page, selectorUpdater, pc, options, input, browser, scraper, sp, result>>

NextTyping == typingBegin \/ typeCharacter \/ typingDone \/ typingFallback

SpecTyping == InitTyping /\ [][NextTyping]_vars

----------------------------------------------------------------------------
(* SpecScrape: one scrapeProfile call, from its entry to its return or     *)
(* raise, with every awaited call returning and every timer firing.        *)

\* scrapeProfile is entered with or without a browser, logged in or not
InitScrape ==
  /\ clock = ClockOrigin
  /\ rateLimiter = RateLimiterNew([baseDelay |-> 0, maxDelay |-> 0,
                                   maxRequestsPerWindow |-> 0, windowSize |-> 0],
                                  ClockOrigin)
  /\ inflight = [p \in Callers |-> IdleCall]
  /\ budget = [records |-> 0, delays |-> 0, ticks |-> 0]
  /\ lastCall = NoCall
  /\ pc = "scrapeProfile"
  /\ \E given \in GivenOptions : options = ScraperOptions(given)
  /\ input \in [hasCredentials : BOOLEAN, profileUrl : RunUrls]
  /\ browser \in {NoBrowser, [browser |-> "open", page |-> "open"]}
  /\ \E authenticated \in BOOLEAN :
       /\ authenticated => input.hasCredentials
       /\ scraper = [NewScraper EXCEPT !.isAuthenticated = authenticated]
  /\ sp = NoLocals
  /\ result = NoResult
  /\ NoPosts

NextScrape ==
  \/ scrapeProfile
  \/ navigateProfile
  \/ delayCall("delayAfterProfile", "extractMetadata")
  \/ extractMetadata
  \/ navigateActivity
  \/ delayCall("delayAfterActivity", "loadAllPosts")
  \/ loadAllPostsScroll
  \/ countPosts
  \/ loadAllPostsDone
  \/ extractPosts
  \/ scrapeCatch
  \/ alternative
  \/ alternativeExtract
  \/ alternativeNext
  \/ tryJigsawStackFallback
  \/ adaptiveWaitOver("c1")

SpecScrape == InitScrape /\ [][NextScrape]_vars /\ WF_vars(NextScrape)

----------------------------------------------------------------------------
(* TrafficShaper: a queue of request functions run by processQueue, an     *)
(* async method. JavaScript runs one stretch of code at a time, so an      *)
(* action is the code between two suspension points: a queueRequest or     *)
(* clearQueue call, the end of an awaited request function, the end of an  *)
(* awaited sleep. A processQueue call in flight awaits a request function  *)
(* or a sleep; it keeps no other state of its own.                         *)

\* bounds: the requests in the model at a time, and the processQueue calls
\* in flight at a time
MaxRequests == 3

MaxProcessors == 2

RequestIds == 1..MaxRequests

\* rate-limiter.js line 359: priority = 1 unless the caller gives another
Priorities == {1, 2}

\* a request not yet passed to queueRequest
NewRequest == [status |-> "new", settles |-> 0]

\* rate-limiter.js lines 353-357, with what became of each request: new,
\* queued, running, or settled as resolved, rejected or cleared; settles
\* counts the calls of its resolve and reject; sleeping counts the
\* processQueue calls that await their sleep; clearedInFlight tells whether
\* clearQueue was ever called with a processQueue call in flight
TrafficShaperNew ==
  [requestQueue |-> <<>>, isProcessing |-> FALSE,
   requests |-> [id \in RequestIds |-> NewRequest],
   sleeping |-> 0, clearedInFlight |-> FALSE]

\* the requests whose function has been called and has not ended
runningRequests(s) == {id \in RequestIds : s.requests[id].status = "running"}

\* the processQueue calls in flight
processors(s) == Cardinality(runningRequests(s)) + s.sleeping

\* one step of a stable sort by descending priority: req goes behind every
\* request of its priority or higher
insertByPriority(sorted, req) ==
  SelectSeq(sorted, LAMBDA x : x.priority >= req.priority)
    \o <<req>> \o SelectSeq(sorted, LAMBDA x : x.priority < req.priority)

RECURSIVE sortRequests(_)
\* rate-limiter.js line 370: requestQueue.sort((a, b) => b.priority - a.priority)
sortRequests(queue) ==
  IF queue = <<>> THEN <<>>
  ELSE insertByPriority(sortRequests(SubSeq(queue, 1, Len(queue) - 1)), queue[Len(queue)])

\* rate-limiter.js lines 386-389: the head of the queue is taken off and its
\* function called
shiftAndRun(s) ==
  [s EXCEPT !.requestQueue = Tail(@),
            !.requests[Head(s.requestQueue).id].status = "running"]

\* rate-limiter.js lines 378-389: processQueue up to its first await
processQueueOf(s) ==
  IF s.isProcessing \/ s.requestQueue = <<>> THEN s
  ELSE shiftAndRun([s EXCEPT !.isProcessing = TRUE])

\* rate-limiter.js lines 359-376
queueRequestOf(s, id, priority) ==
  LET pushed == [s EXCEPT
                   !.requestQueue = sortRequests(Append(@, [id |-> id, priority |-> priority])),
                   !.requests[id].status = "queued"]
  IN  IF ~pushed.isProcessing THEN processQueueOf(pushed) ELSE pushed

\* rate-limiter.js lines 389-393: the awaited function has ended, its
\* promise is resolved with the result or rejected with the error
settleOf(s, id, fulfilled) ==
  [s EXCEPT !.requests[id] = [status  |-> IF fulfilled THEN "resolved" ELSE "rejected",
                              settles |-> @.settles + 1]]

\* rate-limiter.js lines 395-401: sleep while requests are left, else leave
\* the loop
afterRequestOf(s) ==
  IF s.requestQueue # <<>> THEN [s EXCEPT !.sleeping = @ + 1]
  ELSE [s EXCEPT !.isProcessing = FALSE]

\* rate-limiter.js lines 385-389 and 397-401: after the sleep the loop goes on
\* with the head of the queue, or ends when the queue was emptied meanwhile
afterSleepOf(s) ==
  LET woken == [s EXCEPT !.sleeping = @ - 1]
  IN  IF woken.requestQueue # <<>> THEN shiftAndRun(woken)
      ELSE [woken EXCEPT !.isProcessing = FALSE]

\* a clearQueue that drops the queued requests without rejecting them
clearQueueWithoutReject(s) ==
  [s EXCEPT !.requestQueue = <<>>, !.isProcessing = FALSE,
            !.clearedInFlight = @ \/ processors(s) > 0]

\* rate-limiter.js lines 412-418
clearQueueOf(s) ==
  [s EXCEPT !.requests = [id \in RequestIds |->
                            IF \E i \in DOMAIN s.requestQueue : s.requestQueue[i].id = id
                            THEN [status |-> "cleared", settles |-> @[id].settles + 1]
                            ELSE @[id]],
            !.requestQueue = <<>>,
            !.isProcessing = FALSE,
            !.clearedInFlight = @ \/ processors(s) > 0]

\* SpecShaper: a new TrafficShaper and its callers
InitShaper ==
  /\ clock = ClockOrigin
  /\ rateLimiter = RateLimiterNew([baseDelay |-> 0, maxDelay |-> 0,
                                   maxRequestsPerWindow |-> 0, windowSize |-> 0],
                                  ClockOrigin)
  /\ inflight = [p \in Callers |-> IdleCall]
  /\ budget = [records |-> 0, delays |-> 0, ticks |-> 0]
  /\ lastCall = NoCall
  /\ NoScraper
  /\ page = [of |-> "shaper"]
  /\ produced = TrafficShaperNew
  /\ selectorUpdater = SelectorUpdaterNew

\* a caller passes a request to queueRequest
queueRequest(id) ==
  /\ page.of = "shaper"
  /\ produced.requests[id].status = "new"
  /\ ~produced.isProcessing => processors(produced) < MaxProcessors
  /\ \E priority \in Priorities : produced' = queueRequestOf(produced, id, priority)
  /\ UNCHANGED <<rlVars, page, selectorUpdater, pc, options, input, browser, scraper, sp, result>>

\* the function of a running request returns or throws
requestEnds(id) ==
  /\ page.of = "shaper"
  /\ produced.requests[id].status = "running"
  /\ \E fulfilled \in BOOLEAN :
       produced' = afterRequestOf(settleOf(produced, id, fulfilled))
  /\ UNCHANGED <<rlVars, page, selectorUpdater, pc, options, input, browser, scraper, sp, result>>

\* the sleep of a processQueue call is over
sleepOver ==
  /\ page.of = "shaper"
  /\ produced.sleeping > 0
  /\ produced' = afterSleepOf(produced)
  /\ UNCHANGED <<rlVars, page, selectorUpdater, pc, options, input, browser, scraper, sp, result>>

clearQueue ==
  /\ page.of = "shaper"
  /\ produced' = clearQueueOf(produced)
  /\ UNCHANGED <<rlVars, page, selectorUpdater, pc, options, input, browser, scraper, sp, result>>

\* a settled request leaves the model: its place stands for a request made
\* later
requestLeaves(id) ==
  /\ page.of = "shaper"
  /\ produced.requests[id].status \in {"resolved", "rejected", "cleared"}
  /\ produced' = [produced EXCEPT !.requests[id] = NewRequest]
  /\ UNCHANGED <<rlVars, page, selectorUpdater, pc, options, input, browser, scraper, sp, result>>

NextShaper ==
  \/ \E id \in RequestIds : queueRequest(id)
  \/ \E id \in RequestIds : requestEnds(id)
  \/ sleepOver
  \/ clearQueue
  \/ \E id \in RequestIds : requestLeaves(id)

\* every request function ends and every sleep is over at some time
SpecShaper ==
  /\ InitShaper
  /\ [][NextShaper]_vars
  /\ \A id \in RequestIds : WF_vars(requestEnds(id))
  /\ WF_vars(sleepOver)

----------------------------------------------------------------------------
(* Claims about the RateLimiter *)

DelayWithinBounds(r) ==
  /\ IntLeqRat(r.baseDelay, r.currentDelay)
  /\ RatLeqInt(r.currentDelay, r.maxDelay)

\* C6 as stated: with any configured options and after any sequence of
\* recordSuccess, recordFailure, delay and reset calls,
\* baseDelay <= currentDelay <= maxDelay.
C6_DelayWithinBoundsAnyOptions == DelayWithinBounds(rateLimiter)

\* C6 amended: when the limiter is configured with 0 < baseDelay <= maxDelay,
\* baseDelay <= currentDelay <= maxDelay holds after any sequence of
\* recordSuccess, recordFailure, delay and reset calls.
C6_DelayWithinBounds ==
  (0 < rateLimiter.baseDelay /\ rateLimiter.baseDelay <= rateLimiter.maxDelay)
    => DelayWithinBounds(rateLimiter)

\* C6 witness: a consistently configured limiter whose delay was raised and
\* then relaxed to a value strictly between the bounds, with a delay() call made.
C6_Witness ==
  /\ 0 < rateLimiter.baseDelay
  /\ rateLimiter.baseDelay < rateLimiter.maxDelay
  /\ lastCall.op = "recordSuccess"
  /\ rateLimiter.requestCount > 0
  /\ ~RatLeqInt(rateLimiter.currentDelay, rateLimiter.baseDelay)
  /\ ~IntLeqRat(rateLimiter.maxDelay, rateLimiter.currentDelay)

\* C7: successRate stays within [0.1, 1.0]; from any reached state a
\* recordSuccess raises it by at most 0.05, an ordinary recordFailure lowers
\* it by at most 0.1, a blocked recordFailure by at most 0.3, and the blocked
\* step is never smaller than the ordinary step.
C7_SuccessRateSteps ==
  LET cur      == rateLimiter.successRate
      up       == recordSuccessOf(rateLimiter).successRate - cur
      ordinary == cur - recordFailureOf(rateLimiter, FALSE).successRate
      blocked  == cur - recordFailureOf(rateLimiter, TRUE).successRate
  IN  /\ MinSuccessRate <= cur /\ cur <= MaxSuccessRate
      /\ 0 <= up /\ up <= SuccessStep
      /\ 0 <= ordinary /\ ordinary <= FailurePenalty
      /\ 0 <= blocked /\ blocked <= BlockedPenalty
      /\ ordinary <= blocked

\* C7 witness: a blocked failure has just been recorded, the last of the
\* calls made, and the rate sits at its floor.
C7_Witness ==
  /\ lastCall.op = "recordFailure"
  /\ lastCall.arg
  /\ rateLimiter.successRate = MinSuccessRate
  /\ budget.records = 0

\* C8: for sequential delay() calls, requestsInWindow never exceeds
\* maxRequestsPerWindow, and a call that found the ceiling reached does not
\* complete before the end of the window it found (windowStart + windowSize).
C8_WindowCeiling ==
  /\ rateLimiter.requestsInWindow <= rateLimiter.maxRequestsPerWindow
  /\ \A p \in SeqCallers :
       (inflight[p].pc = "idle" /\ inflight[p].limited)
         => inflight[p].completedAt >= inflight[p].windowEnd

\* C8 witness: a call that found the ceiling reached has completed.
C8_Witness ==
  /\ inflight["c1"].pc = "idle"
  /\ inflight["c1"].limited
  /\ lastCall.op = "delay"
  /\ rateLimiter.requestCount > rateLimiter.maxRequestsPerWindow

\* the delay() calls that have completed: those started less those in flight
completedCalls ==
  (MaxDelayCalls - budget.delays)
    - Cardinality({p \in Callers : inflight[p].pc # "idle"})

\* C9 as stated: with several delay() calls in flight, the calls counted in
\* one window never exceed maxRequestsPerWindow, and requestCount equals the
\* number of completed calls.
C9_ReentrantSafe ==
  /\ rateLimiter.requestsInWindow <= rateLimiter.maxRequestsPerWindow
  /\ rateLimiter.requestCount = completedCalls

----------------------------------------------------------------------------
(* Claims about the scraper's run *)

\* scrapeProfile has ended, by a return or by a throw
scrapeEnded == result.scrape \in {"returned", "threw"}

\* the alternative URLs were tried and none of them yielded a post
alternativesYieldedNothing ==
  /\ scrapeEnded
  /\ Len(sp.stages) >= 2
  /\ sp.stages[2] = "alternative"
  /\ result.producedBy # "alternative"

\* C1 as stated: when the primary extraction and every alternative URL have
\* yielded no posts and the AI fallback is disabled or has failed,
\* scrapeProfile returns instead of raising, with scrapedVia equal to
\* 'minimal-fallback' and an empty post list.
C1_MinimalFallbackResult ==
  (alternativesYieldedNothing /\ (~options.useFallback \/ sp.adapter = "failed"))
    => /\ result.scrape = "returned"
       /\ scraper.profileMetadata.scrapedVia = "minimal-fallback"
       /\ result.returned = <<>>
       /\ scraper.scrapedData = <<>>

\* C2 as stated: once the checks before the cascade have passed (browser
\* initialized, URL valid), scrapeProfile never ends by throwing an error.
C2_NoErrorAfterChecks ==
  result.scrape = "threw" => sp.stages = <<>>

\* what C3 says of a run in which the adapter reported success, for a given
\* provenance marker
adapterResultAdopted(marker) ==
  sp.adapter = "success"
    => /\ result.scrape = "returned"
       /\ result.returned = sp.adapted.posts
       /\ scraper.scrapedData = sp.adapted.posts
       /\ scraper.profileMetadata.from = sp.adapted.profileMetadata.from
       /\ scraper.profileMetadata.url = sp.adapted.profileMetadata.url
       /\ scraper.profileMetadata.error = sp.adapted.profileMetadata.error
       /\ scraper.profileMetadata.scrapedVia = marker

C4_ProvenanceMarker ==
  result.scrape = "returned" => scraper.profileMetadata.scrapedVia # "absent"

\* C5 as stated: when credentials are supplied and the login fails, the run
\* is not aborted: the extraction is attempted anonymously, with the
\* authenticated flag false.
C5_AnonymousAfterFailedLogin ==
  (pc = "done" /\ input.hasCredentials /\ result.login = "failed")
    => /\ result.scrape # "notCalled"
       /\ ~scraper.isAuthenticated

\* C10 as stated: on every exit path, once close() has completed the browser
\* that was launched has been closed, also when closing the page fails.
C10_BrowserReleased ==
  (result.closeCalled /\ browser.browser # "null")
    => browser.browser \in {"closed", "closeFailed"}

\* C11: scrapeProfile called with a URL that does not match the profile-URL
\* pattern throws the invalid-URL error at once: the call never reaches a
\* navigation, a retry, a delay() or a cascade stage, the RateLimiter is as
\* constructed, and the session's posts and profile metadata are unchanged.
C11_InvalidUrlRaisesAtOnce ==
  (result.scrape # "notCalled" /\ ~isValidLinkedInProfileUrl(input.profileUrl))
    => /\ pc \in {"scrapeCatch", "catch", "finally", "done"}
       /\ pc # "scrapeCatch" => (result.scrape = "threw" /\ result.thrown = InvalidUrlError)
       /\ sp.thrown = InvalidUrlError
       /\ sp.stages = <<>>
       /\ sp.attempt = 1 /\ sp.altIndex = 0 /\ sp.adapter = "notCalled"
       /\ rateLimiter = RateLimiterNew([baseDelay |-> 0, maxDelay |-> 0,
                                        maxRequestsPerWindow |-> 0, windowSize |-> 0],
                                       ClockOrigin)
       /\ clock = ClockOrigin
       /\ inflight["c1"] = IdleCall
       /\ scraper.scrapedData = NewScraper.scrapedData
       /\ scraper.profileMetadata = NewScraper.profileMetadata

\* C11 witness: a logged-in run whose URL has an underscore in its slug has
\* ended, scrapeProfile having thrown.
C11_Witness ==
  /\ pc = "done"
  /\ input.profileUrl = UnderscoreUrl
  /\ result.login = "ok"
  /\ result.scrape = "threw"

\* C12 as stated: after scrapeProfile has returned normally, also through the
\* minimal fallback or with zero posts, export() hands the session's posts
\* and metadata to the export collaborator instead of raising.
C12_ExportAfterReturn ==
  (result.scrape = "returned" /\ pc \in {"catch", "finally", "done"})
    => result.thrown # NoDataError

----------------------------------------------------------------------------
(* Claims about the posts the stages produce, checked under SpecPosts      *)

\* the posts of the ContentExtractor calls made, and those of the adapter call
extractorPosts ==
  (IF produced.first # <<>> THEN produced.first[1] ELSE <<>>)
    \o (IF produced.second # <<>> THEN produced.second[1] ELSE <<>>)

adapterPosts ==
  IF produced.adapter # <<>> /\ produced.adapter[1].success THEN produced.adapter[1].posts
  ELSE <<>>

resultPosts == extractorPosts \o adapterPosts

\* C13: scrapeLinkedInProfile always returns a result record. Without an API
\* key, with a client that cannot be made, or with a failed profile request,
\* the record has success = false and an error; when only the request for the
\* recent activity fails, it has success = true, the profile data and no post.
C13_AdapterNeverThrows ==
  produced.adapter # <<>> =>
    LET r         == produced.adapter[1]
        s         == page.service
        initFails == ~s.apiKey \/ s.clientThrows
    IN  /\ r.success \in BOOLEAN
        /\ r.source = "jigsawstack"
        /\ initFails => (~r.success /\ r.error = InitializationFailed)
        /\ (~initFails /\ s.profile.throws) => (~r.success /\ r.error = ServiceError)
        /\ (~initFails /\ ~s.profile.throws /\ ~throwsOnRead(s.profile.response)
              /\ s.activity.throws)
             => /\ r.success
                /\ r.posts = <<>>
                /\ r.profileMetadata
                     = structureProfileData(s.profile.response, <<>>, input.profileUrl).profile

\* C13 witness: the profile request was answered with a name, the request for
\* the recent activity threw, and the adapter returned a success.
C13_Witness ==
  /\ produced.adapter # <<>>
  /\ page.service.activity.throws
  /\ produced.adapter[1].success
  /\ produced.adapter[1].profileMetadata.name = Str(<<"A", "n", "n">>)

\* the keys of a post of the ContentExtractor
ExtractorKeys == DOMAIN postData(BlankElement, 0, 0)

\* C14 as stated: a post of the adapter has the keys of a post of the
\* ContentExtractor (caption, type, author, the three counts, engagement
\* among them), its engagement holds score and rate, and each of its
\* mediaFiles entries is a {type, url, filename} record.
C14_AdapterPostShape ==
  \A i \in DOMAIN adapterPosts :
    LET post == adapterPosts[i]
    IN  /\ ExtractorKeys \subseteq DOMAIN post
        /\ DOMAIN post.engagement = {"score", "rate"}
        /\ \A k \in DOMAIN post.mediaFiles :
             DOMAIN post.mediaFiles[k] = {"type", "url", "filename"}

\* C15 as stated: every post produced, by either stage, has a derived score
\* equal to reactions + 3 * comments + 5 * shares, and the score is not
\* negative.
C15_ScoreFormula ==
  \A i \in DOMAIN resultPosts :
    LET post == resultPosts[i]
    IN  /\ "engagement" \in DOMAIN post
        /\ post.engagement.score
             = IntRat(post.reactions.n + 3 * post.comments.n + 5 * post.shares.n)
        /\ post.engagement.score.n >= 0

\* C16 as stated: every mediaFiles entry of every post produced, by either
\* stage, has a url, and the url starts with 'http'.
C16_MediaUrlsHttp ==
  \A i \in DOMAIN resultPosts :
    \A k \in DOMAIN resultPosts[i].mediaFiles :
      LET media == resultPosts[i].mediaFiles[k]
      IN  "url" \in DOMAIN media /\ startsWithHttp(media.url)

\* C17 as stated: no post extractPosts returns has both an empty caption and
\* an empty mediaFiles list.
C17_NoEmptyPost ==
  \A i \in DOMAIN extractorPosts :
    ~(extractorPosts[i].caption = <<>> /\ extractorPosts[i].mediaFiles = <<>>)

\* whether a list of tokens holds bare tokens only, each once
bareTokens(tokens) ==
  /\ \A i \in DOMAIN tokens : tokens[i] # <<>> => Head(tokens[i]) \notin {"#", "@"}
  /\ \A i, j \in DOMAIN tokens : tokens[i] = tokens[j] => i = j

\* C18 as stated: in every post produced, by either stage, hashtags and
\* mentions hold no token that starts with '#' or '@' and no token twice.
C18_BareTokensOnce ==
  \A i \in DOMAIN resultPosts :
    bareTokens(resultPosts[i].hashtags) /\ bareTokens(resultPosts[i].mentions)

\* whether a count is a whole number that is not negative
wholeCount(count) == count.d = 1 /\ count.n >= 0

\* C19 as stated: in every post produced, by either stage, reactions,
\* comments and shares are whole numbers that are not negative.
C19_CountsWhole ==
  \A i \in DOMAIN resultPosts :
    /\ wholeCount(resultPosts[i].reactions)
    /\ wholeCount(resultPosts[i].comments)
    /\ wholeCount(resultPosts[i].shares)

\* what two runs over one snapshot are compared on
compared(post) ==
  <<post.caption, post.type, post.reactions, post.comments, post.shares, post.engagement,
    post.mediaFiles, post.hashtags, post.mentions>>

----------------------------------------------------------------------------
(* Claims about dates, checked under SpecDates *)

\* the label read, as its number and its unit
labelValue == parseDigits(SubSeq(page.label, 1, Len(page.label) - 1), 0)

labelUnit == page.label[Len(page.label)]

\* the months of an instant, counted from the first month of EpochYear
monthIndex(t) == (getFullYear(t) - EpochYear) * MonthsPerYear + getMonth(t)

\* C21 as stated: '<n>h' is resolved to the reference instant less n hours,
\* '<n>d' to it less n days, '<n>w' to it less n weeks, and '<n>m' to it less
\* n months: the same hour of the same day of the month, or of the last day
\* of a shorter month, n months before.
C21_RelativeDateResolved ==
  produced.date # <<>> =>
    LET resolved == produced.date[1]
        T        == page.now
        n        == labelValue
    IN  /\ resolved.kind = "instant"
        /\ labelUnit = "h" => resolved.instant = T - n
        /\ labelUnit = "d" => resolved.instant = T - n * HoursPerDay
        /\ labelUnit = "w" => resolved.instant = T - n * DaysPerWeek * HoursPerDay
        /\ labelUnit = "m" =>
             /\ monthIndex(resolved.instant) = monthIndex(T) - n
             /\ getHours(resolved.instant) = getHours(T)
             /\ getDate(resolved.instant)
                  = Min(getDate(T), daysInMonth(getFullYear(resolved.instant),
                                                getMonth(resolved.instant)))

----------------------------------------------------------------------------
(* Claims about selector lookups, checked under SpecLookup *)

\* the candidates that match in the document, in priority order
matching == {i \in 1..Len(page.selectors) : page.selectors[i].valid /\ page.dom[i].present}

first == CHOOSE i \in matching : \A j \in matching : i <= j

\* the SelectorEngine lookups return the first match and do not throw
engineFindsFirst ==
  produced.engine # <<>> =>
    LET lookup == produced.engine[1]
    IN  /\ ~lookup.findElement.throws /\ ~lookup.findElements.throws
        /\ ~lookup.getText.throws /\ ~lookup.getAttribute.throws
        /\ IF matching = {}
           THEN /\ lookup.findElement.value = Null
                /\ lookup.findElements.value = <<>>
                /\ lookup.getText.value = <<>>
                /\ lookup.getAttribute.value = <<>>
           ELSE /\ lookup.findElement.value = Handle(first, page.dom[first].text)
                /\ lookup.findElements.value = <<Handle(first, page.dom[first].text)>>
                /\ lookup.getText.value = trim(page.dom[first].text)
                /\ lookup.getAttribute.value = lookup.held

\* the in-page lookups return the first match and do not throw
inPageFindsFirst ==
  produced.inPage # <<>> =>
    LET lookup == produced.inPage[1]
    IN  /\ ~lookup.text.throws /\ ~lookup.number.throws
        /\ IF matching = {}
           THEN lookup.text.value = <<>> /\ lookup.number.value = 0
           ELSE /\ lookup.text.value = getTextBySelectors(<<page.dom[first].text>>)
                /\ lookup.number.value = getNumberBySelectors(<<page.dom[first].text>>)

\* C22 as stated: a lookup over a candidate list returns the match of the
\* first candidate, in priority order, that matches; when no candidate
\* matches it returns its not-found value (null, an empty list, an empty
\* string or 0); it does not throw.
C22_LookupFirstMatchOrNotFound == engineFindsFirst /\ inPageFindsFirst

----------------------------------------------------------------------------
(* Claims about the SelectorUpdater, checked under SpecSelectors *)

\* the observed success rate of a selector when the list was asked for:
\* successes over recorded attempts, 0 when none was recorded
observedRate(selector) ==
  LET perf == performanceOf(produced.updater, selector)
  IN  [n |-> perf.success, d |-> Max(perf.success + perf.failure, 1)]

\* the score the list is sorted by
scoreOf(selector) == selectorRate(produced.updater, selector)

declaredAt(selector) == CHOOSE i \in DOMAIN DefaultSelectors : DefaultSelectors[i] = selector

isPermutation(list) ==
  /\ Len(list) = Len(DefaultSelectors)
  /\ \A i \in DOMAIN DefaultSelectors : \E j \in DOMAIN list : list[j] = DefaultSelectors[i]

\* list is in non-increasing order of rate, equal rates in declaration order
sortedBy(list, rate(_)) ==
  \A i, j \in DOMAIN list :
    i < j =>
      /\ rate(list[i]).n * rate(list[j]).d >= rate(list[j]).n * rate(list[i]).d
      /\ rate(list[i]).n * rate(list[j]).d = rate(list[j]).n * rate(list[i]).d
           => declaredAt(list[i]) < declaredAt(list[j])

\* C23 as stated: getOptimizedSelectors returns a permutation of the field's
\* candidates in non-increasing order of observed success rate (successes
\* over recorded attempts), candidates of equal rate in declaration order.
C23_SortedByObservedRate ==
  produced.optimized # <<>> =>
    isPermutation(produced.optimized) /\ sortedBy(produced.optimized, observedRate)

\* the same with the score of lines 326-327 in place of the observed rate
sortedByScore ==
  produced.optimized # <<>> =>
    isPermutation(produced.optimized) /\ sortedBy(produced.optimized, scoreOf)

----------------------------------------------------------------------------
(* Claims about the cascade and the retries, checked under Spec *)

CascadeStages == <<"primary", "alternative", "ai", "minimal">>

PrimaryPositions ==
  {"navigateProfile", "delayAfterProfile", "extractMetadata", "navigateActivity",
   "delayAfterActivity", "loadAllPosts", "countPosts", "extractPosts"}

AlternativePositions == {"alternative", "alternativeExtract", "alternativeNext"}

\* C24: the stages of a scrapeProfile call start in the order primary,
\* alternative URLs, AI fallback, minimal fallback, each at most once; while
\* a stage runs no later stage has started; the AI fallback starts only when
\* it is enabled and the alternative URLs were tried and left no post; the
\* minimal fallback starts only when the AI fallback has failed.
C24_CascadeOrder ==
  /\ \E n \in 0..Len(CascadeStages) : sp.stages = SubSeq(CascadeStages, 1, n)
  /\ pc \in PrimaryPositions => sp.stages = <<"primary">>
  /\ pc \in AlternativePositions => sp.stages = <<"primary", "alternative">>
  /\ pc = "fallback" =>
       /\ sp.stages = <<"primary", "alternative">>
       /\ options.useFallback
       /\ sp.altIndex = AlternativeUrlCount
       /\ \A i \in DOMAIN scraper.scrapedData : scraper.scrapedData[i].from # "alternative"
  /\ Len(sp.stages) >= 3 =>
       /\ options.useFallback
       /\ sp.adapter # "notCalled"
       /\ result.producedBy \in {"ai", "minimal"}
  /\ Len(sp.stages) = 4 => sp.adapter = "failed" /\ result.producedBy = "minimal"

\* C24 witness: a call that went through all four stages and returned
C24_Witness ==
  /\ sp.stages = CascadeStages
  /\ sp.adapter = "failed"
  /\ options.useFallback
  /\ result.scrape = "returned"

\* the positions of the run at a retry() call
RetryPositions == {"navigateProfile", "navigateActivity", "alternative"}

\* a step in which an attempt of the operation wrapped by retry() fails: the
\* call goes on to its next attempt, or the last attempt's error is thrown
attemptFails ==
  /\ pc \in RetryPositions
  /\ \/ pc' = pc /\ sp'.attempt = sp.attempt + 1
     \/ pc' = (IF pc = "alternative" THEN "alternativeNext" ELSE "scrapeCatch")

\* an attempt that fails and is not the last one of its retry() call
earlierAttemptFails == attemptFails /\ pc' = pc

\* C25 as stated: every failed attempt of the operation wrapped by retry(),
\* the last attempt included, is reported to the rate limiter by one
\* recordFailure call.
C25_EveryFailedAttemptRecorded ==
  [][attemptFails => rateLimiter' = recordFailureOf(rateLimiter, FALSE)]_vars

\* every failed attempt but the last of a retry() call is reported
earlierFailuresRecorded ==
  [][earlierAttemptFails => rateLimiter' = recordFailureOf(rateLimiter, FALSE)]_vars

----------------------------------------------------------------------------
(* Claims about the load factor, checked under SpecLoad *)

\* the load factor does not decrease as the request count grows
loadFactorMonotone ==
  \A a, b \in 0..(LoadThreshold2 + MaxLoadExcess) :
    a <= b => loadFactor(a).n * loadFactor(b).d <= loadFactor(b).n * loadFactor(a).d

\* the load factor is 1 up to the first threshold and 1.5 above it, up to
\* the second threshold
loadFactorBelowSecond ==
  produced.calculated # <<>> =>
    LET used == produced.calculated[1]
    IN  /\ used.requestCount <= LoadThreshold1 => used.loadFactor = IntRat(1)
        /\ used.requestCount > LoadThreshold1 /\ used.requestCount <= LoadThreshold2
             => used.loadFactor = [n |-> 3, d |-> 2]

\* C26 as stated: the load factor calculateAdaptiveDelay uses is 1 up to 50
\* requests, 1.5 after 50 requests and 2 after 100 requests, and it does not
\* decrease as requestCount grows.
C26_LoadFactorEscalates ==
  /\ loadFactorMonotone
  /\ loadFactorBelowSecond
  /\ produced.calculated # <<>> /\ produced.calculated[1].requestCount > LoadThreshold2
       => produced.calculated[1].loadFactor = IntRat(2)

\* a step in which the browser navigates: the navigations of login(), and
\* every attempt of a retry() call
navigates ==
  \/ pc = "login" /\ pc' # pc
  \/ /\ pc \in RetryPositions
     /\ sp.attempt <= retries
     /\ pc' # pc \/ sp'.attempt # sp.attempt

\* a delay() call has completed since the browser navigated last, or since
\* the run began
delayedSinceNavigation == rateLimiter.requestCount > sp.navigatedAt

\* C27 as stated: every navigation of a session, in login, in the primary
\* extraction, in each retry attempt and at the alternative URLs, is preceded
\* by a delay() call of the rate limiter made since the navigation before.
C27_DelayBeforeEveryNavigation == [][navigates => delayedSinceNavigation]_vars

\* the first attempt to open the activity page is preceded by a delay() call
activityNavigationDelayed ==
  [][navigates /\ pc = "navigateActivity" /\ sp.attempt = 1 => delayedSinceNavigation]_vars

\* the posts the alternative URLs gave are at most 10 and at most maxPosts,
\* they are what the scraper keeps, and the call has returned
alternativePostsCapped ==
  result.producedBy = "alternative" =>
    /\ Len(result.returned) >= 1
    /\ Len(result.returned) <= AlternativeLimit
    /\ options.maxPosts # 0 => Len(result.returned) <= options.maxPosts
    /\ \A i \in DOMAIN result.returned : result.returned[i].from = "alternative"
    /\ scraper.scrapedData = result.returned
    /\ result.scrape = "returned"
    /\ sp.altIndex \in 1..AlternativeUrlCount
    /\ pc \notin AlternativePositions

\* when the alternative URLs were tried and the call raised, every URL had
\* been tried, the fallback was disabled and the error is the one of the
\* primary stage
alternativeNeverRaises ==
  result.scrape = "threw" /\ Len(sp.stages) >= 2 =>
    /\ sp.altIndex = AlternativeUrlCount
    /\ ~options.useFallback
    /\ result.thrown = sp.error
    /\ result.returned = <<>>

\* the URLs are visited in their order, one after the other, from the first
alternativeInOrder ==
  /\ pc \in AlternativePositions => sp.altIndex \in 1..AlternativeUrlCount
  /\ pc = "fallback" => sp.altIndex = AlternativeUrlCount

\* the next URL is visited only from the one before it, when that one gave
\* no post
alternativeStep ==
  sp'.altIndex # sp.altIndex =>
    \/ pc = "scrapeCatch" /\ sp'.altIndex = 1
    \/ pc = "alternativeNext" /\ sp'.altIndex = sp.altIndex + 1
         /\ result.producedBy = "none"
    \/ pc = "scrapeProfile" /\ sp'.altIndex = 0

\* C28: the alternative-URL stage tries its URL patterns in their order,
\* stops at the first that yields a post, returns at most 10 posts and at
\* most maxPosts, and raises nothing of its own when every pattern fails.
C28_AlternativeStage ==
  /\ [](alternativePostsCapped /\ alternativeNeverRaises /\ alternativeInOrder)
  /\ [][alternativeStep]_vars

\* C28 witness: the second URL gave as many posts as the stage allows, after
\* the first gave none; the call returned them
C28_Witness ==
  /\ result.producedBy = "alternative"
  /\ sp.altIndex = 2
  /\ Len(result.returned) = AlternativeLimit
  /\ pc = "done"

----------------------------------------------------------------------------
(* Claims about login(), checked under SpecLogin *)

loginEnded == produced.at \in {"returned", "threw"}

\* the polls of a login() call stay within the budget of the page it met
pollsBounded ==
  /\ page.run.url = "challenge" => produced.polls <= ChallengePolls
  /\ page.run.url = "verify" => produced.polls <= VerificationPolls
  /\ page.run.url \notin {"challenge", "verify"} => produced.polls = 0

\* login() returns true with the flag set, and from a polling loop at the
\* first poll that shows the feed
returnsAtFirstFeedPoll ==
  /\ produced.at = "returned" =>
       /\ scraper.isAuthenticated
       /\ produced.currentUrl = "feed"
       /\ produced.polls > 0 /\ page.run.feedAtPoll \in 1..produced.polls
            => produced.polls = page.run.feedAtPoll
  /\ scraper.isAuthenticated => produced.at = "returned"

\* on a challenge page and on a verification page login() raises only when
\* the polls of the page are used up
raisesAfterBudget ==
  produced.at = "threw" =>
    /\ page.run.url = "challenge" /\ produced.currentUrl # "none"
         => produced.polls = ChallengePolls
    /\ page.run.url = "verify" /\ produced.currentUrl # "none"
         => produced.polls = VerificationPolls

\* the step-by-step call ends as login(l) says
endsAsLogin ==
  loginEnded =>
    LET outcome == login(page.run)
    IN  /\ outcome.ok = (produced.at = "returned")
        /\ outcome.polls = produced.polls
        /\ outcome.error = produced.error

\* login() ends, within its polling budgets, and returns as it should
loginTerminatesBounded ==
  /\ [](pollsBounded /\ returnsAtFirstFeedPoll /\ endsAsLogin)
  /\ <>loginEnded

\* C29 as stated: login() always terminates; it polls the URL at most 12
\* times on a challenge page and at most 10 times on a verification page,
\* returns true with the authenticated flag set as soon as a poll shows the
\* feed, and raises an error only after the polls of the page are used up.
C29_LoginBoundedPolls ==
  /\ [](pollsBounded /\ returnsAtFirstFeedPoll /\ raisesAfterBudget)
  /\ <>loginEnded

----------------------------------------------------------------------------
(* Claims about the scroll loops, checked under SpecScroll *)

\* what the page measured when the attempt began: the height, or the post
\* count, that the loop compares with
measuredBefore == IF page.loop = "scrollToEnd" THEN produced.current ELSE produced.previous

\* an attempt of a loop, and one that brings growth
scrollAttempt ==
  produced.at = "loop" /\ produced'.at = "loop" /\ produced' # produced

growthAttempt == scrollAttempt /\ produced'.current > measuredBefore

scrollEnded == produced.at = "ended"

\* the stuck counter counts attempts in a row without growth, and the loop
\* that ends through it has seen three of them
stuckAfterThreeInARow ==
  /\ produced.stuckCount <= produced.streak
  /\ produced.endedBy = "stuck" =>
       /\ produced.streak = stuckLimit(page.loop)
       /\ produced.stuckCount = stuckLimit(page.loop)

\* C30: a scroll loop ends through its stuck counter only after 3 attempts
\* in a row that brought no growth; an attempt that brings growth sets the
\* counter to 0; and the loop ends unless growth comes again and again.
C30_ScrollLoopStuckCounter ==
  /\ []stuckAfterThreeInARow
  /\ [][growthAttempt => produced'.stuckCount = 0]_vars
  /\ ([]<><<growthAttempt>>_vars) \/ <>scrollEnded

\* C30 witness: scrollToEnd ended through its counter, after three attempts
\* in a row without growth, on a page whose height was not 0
C30_Witness ==
  /\ produced.endedBy = "stuck"
  /\ produced.streak = ScrollStuckLimit
  /\ produced.current > 0
  /\ page.loop = "scrollToEnd"

----------------------------------------------------------------------------
(* Claims about count texts, checked under SpecCounts *)

\* the index of the first digit of the text parsed, 0 when it has none
countStart == firstDigit(page.text, 1)

\* the index after the leading digit group of the text parsed
countEnd == groupsEnd(page.text, countStart)

\* the multiplier the character directly after the leading digit group names
suffixMultiplier ==
  IF countEnd > Len(page.text) THEN 1
  ELSE IF page.text[countEnd] \in {"k", "K"} THEN 1000
  ELSE IF page.text[countEnd] \in {"m", "M"} THEN 1000000
  ELSE 1

\* the count the stated rule gives the text parsed
statedCount ==
  IF countStart = 0 THEN 0
  ELSE suffixMultiplier
         * parseDigits(SelectSeq(SubSeq(page.text, countStart, countEnd - 1),
                                 LAMBDA c : c # ","), 0)

\* C31 as stated: the in-page helpers of the ContentExtractor and the
\* parseNumber of the fallback adapter give a count text the same count: its
\* leading digit group, times 1,000 or 1,000,000 when k or m directly
\* follows the group, and not multiplied otherwise.
C31_SameCountRule ==
  produced.counts # <<>> =>
    /\ produced.counts[1].profile = statedCount
    /\ produced.counts[1].post = statedCount
    /\ produced.counts[1].adapter = IntRat(statedCount)

\* the part of C31 that holds: the two in-page helpers agree with each other
inPageHelpersAgree ==
  produced.counts # <<>> => produced.counts[1].profile = produced.counts[1].post

----------------------------------------------------------------------------
(* Claims about typing, checked under SpecTyping *)

\* C32 as stated: when humanLikeTyping returns, the field holds exactly the
\* text, whether the per-character path ran to its end or the fallback
\* typing ran after a failure.
C32_TypedExactlyText ==
  produced.pc = "returned" => produced.field = page.text

\* the part of C32 that holds: a call that returns without entering the
\* catch block leaves exactly the text, typos included
typedExactlyWithoutFailure ==
  (produced.pc = "returned" /\ ~produced.failed) => produced.field = page.text

\* while the loop runs, the field holds the characters typed so far
fieldIsPrefix ==
  produced.pc = "loop" => produced.field = SubSeq(page.text, 1, produced.i - 1)

----------------------------------------------------------------------------
(* Claims about the termination of scrapeProfile, checked under SpecScrape *)

\* the attempts of a navigation step are numbered 1..maxRetries
attemptsBounded ==
  (pc \in RetryPositions /\ retries > 0) => sp.attempt \in 1..retries

\* the alternative stage is at one of its three URL patterns
alternativeUrlsBounded ==
  pc \in AlternativePositions => sp.altIndex \in 1..AlternativeUrlCount

\* C33: a scrapeProfile call that has started ends, by returning a post list
\* or by raising; no navigation step is at an attempt beyond maxRetries, and
\* the alternative stage is at no URL pattern beyond the third.
C33_ScrapeProfileTerminates ==
  /\ [](attemptsBounded /\ alternativeUrlsBounded)
  /\ (result.scrape = "running") ~> scrapeEnded

\* a call that ended after retried navigations, all three alternative URLs
\* and the fallback service
C33_Witness ==
  /\ scrapeEnded
  /\ retries = 2
  /\ rateLimiter.successRate < MaxSuccessRate
  /\ sp.altIndex = AlternativeUrlCount
  /\ sp.stages = <<"primary", "alternative", "ai">>

----------------------------------------------------------------------------
(* Claims about retry(), checked under Spec *)

\* where a navigation step goes on when its retry() call returns
AfterRetry == {"delayAfterProfile", "delayAfterActivity", "alternativeExtract"}

\* a step in which a retry() call returns normally
retryReturns == pc \in RetryPositions /\ pc' \in AfterRetry

\* the loop of retry() is at an attempt it makes: attempt <= retries
operationInvoked == sp.attempt <= retries

\* C34 as stated: a retry() call returns normally only in a step in which an
\* invocation of the operation succeeded, whatever maxRetries is configured.
C34_RetryRunsOperation == [][retryReturns => operationInvoked]_vars

\* the part of C34 that holds: with maxRetries of 1 or more
retryRunsOperationWhenPositive ==
  [][(retryReturns /\ retries > 0) => operationInvoked]_vars

----------------------------------------------------------------------------
(* Claims about the session's profile metadata, checked under Spec *)

\* the session's metadata was written by this call, for the URL it was given
metadataWritten ==
  /\ scraper.profileMetadata.from # "none"
  /\ scraper.profileMetadata.url = input.profileUrl

\* C35 as stated: whenever scrapeProfile has returned normally, the
\* session's profile metadata is the one written during the call for its URL.
C35_MetadataWrittenOnReturn ==
  result.scrape = "returned" => metadataWritten

\* the part of C35 that holds: a call that returns from the primary stage or
\* from a fallback has written the metadata
metadataWrittenOutsideAlternative ==
  (result.scrape = "returned" /\ result.producedBy # "alternative") => metadataWritten

----------------------------------------------------------------------------
(* Claims about the scraper's use of its RateLimiter, checked under Spec *)

\* a <= b for two rationals
RatLeq(a, b) == a.n * b.d <= b.n * a.d

\* a step that relaxes the rate limiter
relaxes ==
  \/ ~RatLeq(rateLimiter.currentDelay, rateLimiter'.currentDelay)
  \/ rateLimiter'.successRate > rateLimiter.successRate

\* a step that changes what the rate limiter adapts its delay by
adapts ==
  \/ rateLimiter'.currentDelay # rateLimiter.currentDelay
  \/ rateLimiter'.successRate # rateLimiter.successRate

\* C36: in a run of the scraper no step lowers currentDelay or raises
\* successRate, and the two change only where retry() records a failure.
C36_RateLimiterNeverRelaxed ==
  [][~relaxes /\ (adapts => (pc \in RetryPositions /\ lastCall'.op = "recordFailure"))]_vars

\* a scrapeProfile call that ended with the limiter tightened, after delay()
\* calls
C36_Witness ==
  /\ scrapeEnded
  /\ rateLimiter.requestCount > 0
  /\ rateLimiter.successRate < MaxSuccessRate
  /\ ~RatLeq(rateLimiter.currentDelay, IntRat(rateLimiter.baseDelay))

----------------------------------------------------------------------------
(* Claims about the TrafficShaper, checked under SpecShaper *)

\* C37 as stated: at no time are two request functions running.
C37_OneRequestAtATime == Cardinality(runningRequests(produced)) <= 1

\* the part of C37 that holds: as long as clearQueue was not called with a
\* processQueue call in flight
oneRequestAtATimeUnlessCleared ==
  ~produced.clearedInFlight =>
    /\ Cardinality(runningRequests(produced)) <= 1
    /\ processors(produced) <= 1
    /\ produced.isProcessing = (processors(produced) = 1)

\* a request passed to queueRequest whose promise is not settled yet
pending(id) == produced.requests[id].status \in {"queued", "running"}

settled(id) == produced.requests[id].status \in {"resolved", "rejected", "cleared"}

\* the place of a request in the queue, 0 when it is not queued
placeOf(s, id) ==
  IF \E i \in DOMAIN s.requestQueue : s.requestQueue[i].id = id
  THEN CHOOSE i \in DOMAIN s.requestQueue : s.requestQueue[i].id = id
  ELSE 0

\* the promise of a request is settled by one call of resolve or reject, and
\* not before the request was passed to queueRequest and left the queue
settledOnce ==
  \A id \in RequestIds :
    /\ produced.requests[id].settles = (IF settled(id) THEN 1 ELSE 0)
    /\ (produced.requests[id].status = "queued") = (placeOf(produced, id) > 0)
    /\ Cardinality({i \in DOMAIN produced.requestQueue : produced.requestQueue[i].id = id}) <= 1

\* a queued request is waited for by a processQueue call in flight
queueServed == produced.requestQueue # <<>> => processors(produced) > 0

\* a request of higher priority is queued ahead of a queued request
overtaken(id) == placeOf(produced, id) > 0 /\ placeOf(produced', id) > placeOf(produced, id)

\* C38 as stated: every request passed to queueRequest is settled at some
\* time, and by one call of resolve or reject, when every request function
\* ends.
C38_EveryRequestSettles ==
  /\ [](settledOnce /\ queueServed)
  /\ \A id \in RequestIds : pending(id) ~> settled(id)

\* C38, amended: every request passed to queueRequest is settled at some
\* time, and by one call of resolve or reject, when every request function
\* ends and requests of higher priority do not go on being queued ahead of
\* it for ever.
C38_SettlesUnlessOvertakenForEver ==
  /\ [](settledOnce /\ queueServed)
  /\ \A id \in RequestIds :
       \/ pending(id) ~> settled(id)
       \/ []<><<overtaken(id)>>_vars

\* three requests settled in the three ways: resolved with the result,
\* rejected with the error, rejected by clearQueue
C38_Witness ==
  \E a, b, c \in RequestIds :
    /\ produced.requests[a] = [status |-> "resolved", settles |-> 1]
    /\ produced.requests[b] = [status |-> "rejected", settles |-> 1]
    /\ produced.requests[c] = [status |-> "cleared", settles |-> 1]

----------------------------------------------------------------------------
(* Claims about added selectors, checked under SpecCustom *)

\* how many entries of a list are x
occurrences(list, x) == Cardinality({i \in DOMAIN list : list[i] = x})

\* two lists hold the same entries, each as many times
sameEntries(a, b) ==
  /\ Len(a) = Len(b)
  /\ \A i \in DOMAIN a : occurrences(a, a[i]) = occurrences(b, a[i])

\* getOptimizedSelectors was called after addCustomSelector
calledWithCustomSelector ==
  produced.optimized # <<>> /\ produced.updater.customSelectors # <<>>

\* C39 as stated: after addCustomSelector, getOptimizedSelectors returns the
\* added selector as one candidate, every default candidate of the field,
\* and no other entry.
C39_CustomSelectorIsCandidate ==
  calledWithCustomSelector =>
    sameEntries(produced.optimized, produced.updater.customSelectors \o DefaultSelectors)

\* what getOptimizedSelectors returns instead: one entry per character of
\* the added selector, and every default candidate
customSelectorSpread ==
  calledWithCustomSelector =>
    sameEntries(produced.optimized,
                characters(produced.updater.customSelectors[1]) \o DefaultSelectors)

\* C39 holds for a selector of one character
oneCharacterSelectorIsCandidate ==
  (calledWithCustomSelector /\ Len(characters(produced.updater.customSelectors[1])) = 1)
    => sameEntries(produced.optimized, produced.updater.customSelectors \o DefaultSelectors)

====
